---- MODULE Spec2Model ----
(***************************************************************************)
(* Verification model of grammarly-mcp:                                    *)
(*   - the optimization loop   (src/src/grammarlyOptimizer.ts, 1..381)     *)
(*   - the Browser Use scoring task (src/src/browser/grammarlyTask.ts)     *)
(*   - the Browserbase session manager (sessionManager.ts, found in        *)
(*     src/CHANGELOG.md 47..356)                                           *)
(* Every await of the source is a step of the process that executes it.    *)
(***************************************************************************)
EXTENDS Integers, Sequences, FiniteSets, TLC

\* ------------------------------------------------------------------ bounds
\* largest max_iterations a caller passes in the model (the schema allows 1..20)
MaxIterationsBound == 2
\* longest proxy password a configuration holds in the model, in tokens
MaxPasswordLen == 3

\* ------------------------------------------------------- program constants
\* z.number().min(0).max(100) of the score and threshold schemas
PercentMin == 0
PercentMax == 100
\* ToolInputSchema defaults of max_ai_percent / max_plagiarism_percent
DefaultMaxAiPercent == 10
DefaultMaxPlagiarismPercent == 5

\* JavaScript null of a nullable score, kept outside PercentMin..PercentMax
Null == -1
\* JavaScript null of `let sessionId: string | null`
NoSession == "null"

Percent == PercentMin..PercentMax
NullablePercent == Percent \cup {Null}

\* ------------------------------------------------------------- input sets
RunIds == {1, 2}
Modes == {"score_only", "analyze", "optimize"}
Texts == {"text-a", "text-b"}
\* scores the Grammarly UI may show: below and above the default maxima
AiSamples == {Null, 8, 15}
PlagiarismSamples == {Null, 3, 7}
\* ids the Browser Use backend hands out, one per created session
BrowserUseSessionIds == <<"bu-1", "bu-2">>
AnalysisOutputs == {"analysis-1", "analysis-2"}
SummaryOutputs == {"summary-1"}
BaselineNote == "Baseline Grammarly scores on original text (iteration 0)."
ScoreOnlyMetNote == "Score-only run: original text already meets configured AI and plagiarism thresholds."
ScoreOnlyNotMetNote == "Score-only run: thresholds not met or scores unavailable; no rewriting performed."

VARIABLES
    run,          \* run[r]: the locals of one runGrammarlyOptimization call
    buOpen,       \* Browser Use backend: ids of sessions created and not deleted
    buCreated,    \* Browser Use backend: number of sessions created so far
    tm,           \* one evaluation of thresholdsMet: arguments and result
    cachedSessionId,  \* BrowserbaseSessionManager.cachedSessionId
    cachedContextId,  \* BrowserbaseSessionManager.cachedContextId
    bbStatus,     \* Browserbase backend: status of every session id
    bbSessionsCreated,  \* Browserbase backend: number of sessions created
    bbContextsCreated,  \* Browserbase backend: number of contexts created
    bbSessionContext,   \* Browserbase backend: the context each created session persists to
    call,         \* call[c]: the session-manager call caller c is executing
    provider,     \* StagehandProvider: its two maps and the call it is executing
    task,         \* one runStagehandGrammarlyTask execution
    cfg           \* one evaluation of the proxy configuration helpers

managerVars == <<cachedSessionId, cachedContextId, bbStatus, bbSessionContext,
                 bbSessionsCreated, bbContextsCreated, call>>
\* what a step of an optimization run leaves alone
notOptimizerVars == <<tm, managerVars, provider, task, cfg>>
notManagerVars == <<run, buOpen, buCreated, tm, provider, task, cfg>>
vars == <<run, buOpen, buCreated, tm, managerVars, provider, task, cfg>>

\* ----------------------------------------------------------- thresholdsMet
\* a thresholdsMet that accepts two unavailable scores
thresholdsMet_bothNullMet(scores, maxAiPercent, maxPlagiarismPercent) ==
    LET aiOk == IF scores.aiDetectionPercent # Null
                THEN scores.aiDetectionPercent <= maxAiPercent ELSE TRUE
        plagiarismOk == IF scores.plagiarismPercent # Null
                        THEN scores.plagiarismPercent <= maxPlagiarismPercent ELSE TRUE
    IN aiOk /\ plagiarismOk

thresholdsMet(scores, maxAiPercent, maxPlagiarismPercent) ==
    LET aiAvailable == scores.aiDetectionPercent # Null
        plagiarismAvailable == scores.plagiarismPercent # Null
    IN IF ~aiAvailable /\ ~plagiarismAvailable
       THEN FALSE
       ELSE LET aiOk == IF aiAvailable /\ scores.aiDetectionPercent # Null
                        THEN scores.aiDetectionPercent <= maxAiPercent
                        ELSE TRUE
                plagiarismOk == IF plagiarismAvailable /\ scores.plagiarismPercent # Null
                                THEN scores.plagiarismPercent <= maxPlagiarismPercent
                                ELSE TRUE
            IN aiOk /\ plagiarismOk

\* ------------------------------------------------- runGrammarlyScoreTask
\* what task.complete() of the Browser Use backend can produce
RawTaskResults ==
    {[kind |-> "timeout"], [kind |-> "no_parsed"]}
    \cup {[kind |-> "parsed", aiDetectionPercent |-> a, plagiarismPercent |-> p] :
            a \in AiSamples, p \in PlagiarismSamples}
    \cup {[kind |-> "parsed", aiDetectionPercent |-> PercentMax + 1, plagiarismPercent |-> Null]}

\* GrammarlyScoresSchema.safeParse: each score is null or a number in 0..100
GrammarlyScoresSchema(parsed) ==
    /\ parsed.aiDetectionPercent \in NullablePercent
    /\ parsed.plagiarismPercent \in NullablePercent

\* result of runGrammarlyScoreTask for a raw backend result: scores or a thrown Error
runGrammarlyScoreTask(raw) ==
    CASE raw.kind = "timeout" ->
           [ok |-> FALSE, error |-> "score: task timed out"]
      [] raw.kind = "no_parsed" ->
           [ok |-> FALSE, error |-> "score: no structured scores"]
      [] raw.kind = "parsed" /\ ~GrammarlyScoresSchema(raw) ->
           [ok |-> FALSE, error |-> "score: invalid score structure"]
      [] OTHER ->
           [ok |-> TRUE,
            scores |-> [aiDetectionPercent |-> raw.aiDetectionPercent,
                        plagiarismPercent |-> raw.plagiarismPercent]]

\* ------------------------------------------------------- progress values
\* percent values are kept as multiples of 1/(2*max_iterations), so that the
\* rewrite and score sub-steps of every iteration are integers
Min2(a, b) == IF a <= b THEN a ELSE b
Max2(a, b) == IF a >= b THEN a ELSE b
Scaled(percent, s) == percent * 2 * s.max_iterations
\* Math.max(15, Math.min(85, 15 + ((iteration - 1) / max_iterations) * 70))
iterationProgress(s) ==
    Max2(Scaled(15, s), Min2(Scaled(85, s), Scaled(15, s) + (s.iteration - 1) * 140))
\* a scoring progress half an iteration ahead of the iteration's end
scoringProgress_aheadOfIteration(s) ==
    Max2(Scaled(15, s), Min2(Scaled(85, s), Scaled(15, s) + (2 * s.iteration + 1) * 70))

\* Math.max(15, Math.min(85, 15 + ((iteration - 1 + 0.5) / max_iterations) * 70))
scoringProgress(s) ==
    Max2(Scaled(15, s), Min2(Scaled(85, s), Scaled(15, s) + (2 * s.iteration - 1) * 70))

\* --------------------------------------------- runGrammarlyOptimization
\* a progress sink that is not the tool handler's (a caller's own callback)
NoCarrier == [handler |-> FALSE, sendNotification |-> FALSE, progressToken |-> "undefined"]
\* part_003 lines 66-85: what the tool handler finds in `extra`: whether it
\* can send notifications, and the progress token, which is undefined, a
\* string, or a number ("0" stands for the number zero)
ProgressTokenCarriers ==
    {[handler |-> TRUE, sendNotification |-> sn, progressToken |-> t] :
        sn \in BOOLEAN, t \in {"undefined", "token-1", "0"}}
\* JavaScript truthiness of a progress token
TruthyToken(t) == t \notin {"undefined", "0"}
\* an invocation of a sink that sent nothing and returned
Quiet == [sent |-> FALSE, failed |-> FALSE, threw |-> FALSE]

\* a handler sink without the try block around sendNotification
onProgress_noCatch(carrier, delivered) ==
    IF carrier.sendNotification /\ TruthyToken(carrier.progressToken)
    THEN [sent |-> TRUE, failed |-> ~delivered, threw |-> ~delivered]
    ELSE Quiet

\* part_003 lines 86-104: the handler's sink sends a notification when it
\* can and has a token, catches and logs a failed send, and returns
onProgress(carrier, delivered) ==
    IF carrier.sendNotification /\ TruthyToken(carrier.progressToken)
    THEN [sent |-> TRUE, failed |-> ~delivered, threw |-> FALSE]
    ELSE Quiet

\* the locals before the call starts
IdleRun ==
    [pc |-> "idle", text |-> "text-a", mode |-> "optimize",
     max_ai_percent |-> DefaultMaxAiPercent,
     max_plagiarism_percent |-> DefaultMaxPlagiarismPercent,
     max_iterations |-> 1, hasSink |-> FALSE,
     carrier |-> NoCarrier, sent |-> 0, sendFailed |-> FALSE,
     currentText |-> "text-a",
     lastScores |-> [aiDetectionPercent |-> Null, plagiarismPercent |-> Null],
     iterationsUsed |-> 0, reachedThresholds |-> FALSE, history |-> <<>>,
     iteration |-> 0, sessionId |-> NoSession,
     completion |-> [kind |-> "none"], outcome |-> [kind |-> "pending"],
     analysis |-> "none", rewriteResult |-> [rewrittenText |-> "none", reasoning |-> "none"],
     notes |-> "none",
     calls |-> <<>>, progress |-> <<>>, closeFailed |-> FALSE]

OffRun == [IdleRun EXCEPT !.pc = "off"]

Goto(s, p) == [s EXCEPT !.pc = p]
\* an awaited external call: the session it addresses, what it was passed and
\* what it settled to ("-" where the model keeps none)
Called(s, op, arg, input, output) ==
    [s EXCEPT !.calls = Append(@, [op |-> op, arg |-> arg, input |-> input, output |-> output])]
\* an exception thrown inside the try block: control passes to the finally block
Throw(s, e) == [s EXCEPT !.completion = [kind |-> "throw", error |-> e], !.pc = "finally"]
\* a return statement inside the try block: control passes to the finally block
Return(s, value) == [s EXCEPT !.completion = [kind |-> "return", value |-> value], !.pc = "finally"]
\* onProgress?.(message, percent): the sink is invoked only when one was passed
Report(s, scaledPercent) ==
    IF s.hasSink THEN [s EXCEPT !.progress = Append(@, scaledPercent)] ELSE s
\* what an awaited invocation of the sink may do: the handler's sink as
\* onProgress has it, any other sink returns or throws
SinkOutcomes(s) ==
    IF ~s.hasSink THEN {Quiet}
    ELSE IF s.carrier.handler
         THEN {onProgress(s.carrier, delivered) : delivered \in BOOLEAN}
         ELSE {Quiet, [Quiet EXCEPT !.threw = TRUE]}
\* the notifications of a run: how many were sent, and whether one failed
Noted(s, o) ==
    [s EXCEPT !.sent = IF o.sent THEN @ + 1 ELSE @, !.sendFailed = @ \/ o.failed]

HistoryEntry(iteration, scores, note) ==
    [iteration |-> iteration,
     ai_detection_percent |-> scores.aiDetectionPercent,
     plagiarism_percent |-> scores.plagiarismPercent,
     note |-> note]

Result(s, iterations_used, thresholds_met, notes) ==
    [final_text |-> s.currentText,
     ai_detection_percent |-> s.lastScores.aiDetectionPercent,
     plagiarism_percent |-> s.lastScores.plagiarismPercent,
     iterations_used |-> iterations_used,
     thresholds_met |-> thresholds_met,
     history |-> s.history,
     notes |-> notes]

\* the call: destructure the input and initialise the locals (lines 157-173)
Start(r) ==
    /\ run[r].pc = "idle"
    /\ \E text \in Texts, mode \in Modes, max_iterations \in 1..MaxIterationsBound,
          hasSink \in BOOLEAN :
         run' = [run EXCEPT ![r] =
                   [IdleRun EXCEPT !.pc = "p5", !.text = text, !.mode = mode,
                                   !.max_iterations = max_iterations,
                                   !.hasSink = hasSink, !.currentText = text]]
    /\ UNCHANGED <<buOpen, buCreated, notOptimizerVars>>

\* await onProgress?.(message, percent) inside the try block, followed by the
\* synchronous code `after` up to the next await
ProgressStep(r, site, scaledPercent, after) ==
    /\ run[r].pc = site
    /\ \E o \in SinkOutcomes(run[r]) :
         run' = [run EXCEPT ![r] =
                   IF ~o.threw THEN Noted(after, o)
                   ELSE Noted(Throw(Report(run[r], scaledPercent), "progress sink failed"), o)]
    /\ UNCHANGED <<buOpen, buCreated, notOptimizerVars>>

\* line 176: the first progress report precedes the try block, so an error of
\* the sink settles the call at once
ProgressCreating(r) ==
    /\ run[r].pc = "p5"
    /\ LET s == Report(run[r], Scaled(5, run[r])) IN
         \E o \in SinkOutcomes(s) :
           run' = [run EXCEPT ![r] =
                     IF ~o.threw THEN Noted(Goto(s, "create"), o)
                     ELSE Noted([s EXCEPT !.pc = "done",
                                          !.outcome = [kind |-> "rejected",
                                                       error |-> "progress sink failed"]], o)]
    /\ UNCHANGED <<buOpen, buCreated, notOptimizerVars>>

\* lines 182 and grammarlyTask.ts 124-151: the backend returns a session with a
\* string id, returns something without one, or rejects
createGrammarlySession(r) ==
    /\ run[r].pc = "create"
    /\ \/ /\ buCreated < Len(BrowserUseSessionIds)
          /\ LET id == BrowserUseSessionIds[buCreated + 1]
                 s == Called(run[r], "createSession", "-", "-", [ok |-> TRUE, value |-> id])
             IN /\ run' = [run EXCEPT ![r] = [s EXCEPT !.sessionId = id, !.pc = "p10"]]
                /\ buOpen' = buOpen \cup {id}
                /\ buCreated' = buCreated + 1
       \/ /\ \E e \in {"create: no valid id", "create: request failed"} :
               run' = [run EXCEPT ![r] =
                         Throw(Called(run[r], "createSession", "-", "-", [ok |-> FALSE]), e)]
          /\ UNCHANGED <<buOpen, buCreated>>
    /\ UNCHANGED notOptimizerVars

ProgressInitialScoring(r) ==
    ProgressStep(r, "p10", Scaled(10, run[r]), Goto(Report(run[r], Scaled(10, run[r])), "score0"))

\* a baseline pass that records no history entry
AfterBaseline_noEntry(s, scores) ==
    [s EXCEPT !.lastScores = scores,
              !.pc = CASE s.mode = "score_only" -> "p100s"
                       [] s.mode = "analyze" -> "p50"
                       [] OTHER -> "p15"]

\* a baseline pass after which analyze falls through into the optimize loop
AfterBaseline_analyzeFallsThrough(s, scores) ==
    [s EXCEPT !.lastScores = scores,
              !.history = Append(@, HistoryEntry(0, scores, BaselineNote)),
              !.pc = CASE s.mode = "score_only" -> "p100s"
                       [] OTHER -> "p15"]

\* a baseline pass that skips the loop when the baseline meets the thresholds
AfterBaseline_checksBaseline(s, scores) ==
    LET met == thresholdsMet(scores, s.max_ai_percent, s.max_plagiarism_percent) IN
      [s EXCEPT !.lastScores = scores,
                !.history = Append(@, HistoryEntry(0, scores, BaselineNote)),
                !.reachedThresholds = IF s.mode = "optimize" THEN met ELSE @,
                !.pc = CASE s.mode = "score_only" -> "p100s"
                         [] s.mode = "analyze" -> "p50"
                         [] met -> "p92"
                         [] OTHER -> "p15"]

\* lines 196-201 and the mode dispatch of lines 203, 227, 261
AfterBaseline(s, scores) ==
    [s EXCEPT !.lastScores = scores,
              !.history = Append(@, HistoryEntry(0, scores, BaselineNote)),
              !.pc = CASE s.mode = "score_only" -> "p100s"
                       [] s.mode = "analyze" -> "p50"
                       [] OTHER -> "p15"]

\* lines 189-194: baseline scoring pass
ScoreBaseline(r) ==
    /\ run[r].pc = "score0"
    /\ \E raw \in RawTaskResults :
         LET res == runGrammarlyScoreTask(raw)
             s == Called(run[r], "scoreTask", run[r].sessionId,
                         [text |-> run[r].currentText], res)
         IN run' = [run EXCEPT ![r] =
                      IF res.ok THEN AfterBaseline(s, res.scores) ELSE Throw(s, res.error)]
    /\ UNCHANGED <<buOpen, buCreated, notOptimizerVars>>

\* a score_only result that compares each score with the other score's maximum
ScoreOnlyReturn_swappedMaxima(s) ==
    LET met == thresholdsMet(s.lastScores, s.max_plagiarism_percent, s.max_ai_percent)
        t == [s EXCEPT !.reachedThresholds = met]
    IN Return(t, Result(t, 0, met, IF met THEN ScoreOnlyMetNote ELSE ScoreOnlyNotMetNote))

\* lines 206-224: score_only result
ScoreOnlyReturn(s) ==
    LET met == thresholdsMet(s.lastScores, s.max_ai_percent, s.max_plagiarism_percent)
        t == [s EXCEPT !.reachedThresholds = met]
    IN Return(t, Result(t, 0, met, IF met THEN ScoreOnlyMetNote ELSE ScoreOnlyNotMetNote))

ProgressScoringComplete(r) ==
    ProgressStep(r, "p100s", Scaled(100, run[r]),
                 ScoreOnlyReturn(Report(run[r], Scaled(100, run[r]))))

ProgressAnalyzing(r) ==
    ProgressStep(r, "p50", Scaled(50, run[r]), Goto(Report(run[r], Scaled(50, run[r])), "analyze"))

\* lines 230-245: the analysis step and the threshold evaluation after it
analyzeTextWithClaude(r) ==
    /\ run[r].pc = "analyze"
    /\ LET input == [text |-> run[r].currentText, lastScores |-> run[r].lastScores]
           s == Called(run[r], "analyze", "-", input, [ok |-> FALSE])
       IN
         \/ \E out \in AnalysisOutputs :
              run' = [run EXCEPT ![r] =
                        [Called(run[r], "analyze", "-", input, [ok |-> TRUE, value |-> out])
                           EXCEPT !.analysis = out,
                                  !.reachedThresholds =
                                      thresholdsMet(s.lastScores, s.max_ai_percent,
                                                    s.max_plagiarism_percent),
                                  !.pc = "p100a"]]
         \/ run' = [run EXCEPT ![r] = Throw(s, "analyze failed")]
    /\ UNCHANGED <<buOpen, buCreated, notOptimizerVars>>

\* lines 249-257: analyze result
AnalyzeReturn(s) == Return(s, Result(s, 0, s.reachedThresholds, s.analysis))

ProgressAnalysisComplete(r) ==
    ProgressStep(r, "p100a", Scaled(100, run[r]),
                 AnalyzeReturn(Report(run[r], Scaled(100, run[r]))))

\* the loop test `iteration <= max_iterations` and line 269
LoopTest(s) ==
    IF s.iteration <= s.max_iterations
    THEN [s EXCEPT !.iterationsUsed = s.iteration, !.pc = "pRewrite"]
    ELSE [s EXCEPT !.pc = "p92"]

\* line 261, then the loop initialisation `iteration = 1`
ProgressLoopStart(r) ==
    ProgressStep(r, "p15", Scaled(15, run[r]),
                 LoopTest([Report(run[r], Scaled(15, run[r])) EXCEPT !.iteration = 1]))

\* lines 272-279
ProgressRewriting(r) ==
    ProgressStep(r, "pRewrite", iterationProgress(run[r]),
                 Goto(Report(run[r], iterationProgress(run[r])), "rewrite"))

\* lines 281-293: the rewrite step replaces currentText
rewriteTextWithClaude(r) ==
    /\ run[r].pc = "rewrite"
    /\ LET input == [originalText |-> run[r].currentText, lastScores |-> run[r].lastScores]
           s == Called(run[r], "rewrite", "-", input, [ok |-> FALSE])
       IN
         \/ \E out \in Texts :
              run' = [run EXCEPT ![r] =
                        [Called(run[r], "rewrite", "-", input,
                                [ok |-> TRUE,
                                 value |-> [rewrittenText |-> out, reasoning |-> "reasoning"]])
                           EXCEPT !.rewriteResult = [rewrittenText |-> out, reasoning |-> "reasoning"],
                                  !.currentText = out,
                                  !.pc = "pScore"]]
         \/ run' = [run EXCEPT ![r] = Throw(s, "rewrite failed")]
    /\ UNCHANGED <<buOpen, buCreated, notOptimizerVars>>

\* lines 298-305
ProgressRescoring(r) ==
    ProgressStep(r, "pScore", scoringProgress(run[r]),
                 Goto(Report(run[r], scoringProgress(run[r])), "score"))

\* a loop body that never breaks on met thresholds
AfterRescore_noBreak(s, scores) ==
    LET met == thresholdsMet(scores, s.max_ai_percent, s.max_plagiarism_percent)
        t == [s EXCEPT !.lastScores = scores,
                       !.reachedThresholds = met,
                       !.history = Append(@, HistoryEntry(s.iteration, scores, s.rewriteResult.reasoning))]
    IN LoopTest([t EXCEPT !.iteration = s.iteration + 1])

\* a loop body that moves on to another session for the next iteration
AfterRescore_replacesSession(s, scores) ==
    LET met == thresholdsMet(scores, s.max_ai_percent, s.max_plagiarism_percent)
        t == [s EXCEPT !.lastScores = scores,
                       !.reachedThresholds = met,
                       !.sessionId = BrowserUseSessionIds[2],
                       !.history = Append(@, HistoryEntry(s.iteration, scores, s.rewriteResult.reasoning))]
    IN IF met THEN Goto(t, "p92")
       ELSE LoopTest([t EXCEPT !.iteration = s.iteration + 1])

\* lines 315-337: threshold evaluation, history entry, break or `iteration += 1`
AfterRescore(s, scores) ==
    LET met == thresholdsMet(scores, s.max_ai_percent, s.max_plagiarism_percent)
        t == [s EXCEPT !.lastScores = scores,
                       !.reachedThresholds = met,
                       !.history = Append(@, HistoryEntry(s.iteration, scores, s.rewriteResult.reasoning))]
    IN IF met THEN Goto(t, "p92")
       ELSE LoopTest([t EXCEPT !.iteration = s.iteration + 1])

\* a re-score that is passed the caller's text instead of the rewrite
ReScore_scoresOriginal(r) ==
    /\ run[r].pc = "score"
    /\ \E raw \in RawTaskResults :
         LET res == runGrammarlyScoreTask(raw)
             s == Called(run[r], "scoreTask", run[r].sessionId, [text |-> run[r].text], res)
         IN run' = [run EXCEPT ![r] =
                      IF res.ok THEN AfterRescore(s, res.scores) ELSE Throw(s, res.error)]
    /\ UNCHANGED <<buOpen, buCreated, notOptimizerVars>>

\* lines 308-313: re-score of the rewritten text in the same session
ReScore(r) ==
    /\ run[r].pc = "score"
    /\ \E raw \in RawTaskResults :
         LET res == runGrammarlyScoreTask(raw)
             s == Called(run[r], "scoreTask", run[r].sessionId,
                         [text |-> run[r].currentText], res)
         IN run' = [run EXCEPT ![r] =
                      IF res.ok THEN AfterRescore(s, res.scores) ELSE Throw(s, res.error)]
    /\ UNCHANGED <<buOpen, buCreated, notOptimizerVars>>

\* line 341
ProgressSummary(r) ==
    ProgressStep(r, "p92", Scaled(92, run[r]), Goto(Report(run[r], Scaled(92, run[r])), "summary"))

\* lines 344-352
summarizeOptimizationWithClaude(r) ==
    /\ run[r].pc = "summary"
    /\ LET input == [iterationsUsed |-> run[r].iterationsUsed,
                     thresholdsMet |-> run[r].reachedThresholds,
                     history |-> run[r].history, finalText |-> run[r].currentText]
           s == Called(run[r], "summarize", "-", input, [ok |-> FALSE])
       IN
         \/ \E out \in SummaryOutputs :
              run' = [run EXCEPT ![r] = [Called(run[r], "summarize", "-", input, [ok |-> TRUE, value |-> out])
                                           EXCEPT !.notes = out, !.pc = "p100o"]]
         \/ run' = [run EXCEPT ![r] = Throw(s, "summary failed")]
    /\ UNCHANGED <<buOpen, buCreated, notOptimizerVars>>

\* lines 357-365: optimize result
OptimizeReturn(s) == Return(s, Result(s, s.iterationsUsed, s.reachedThresholds, s.notes))

\* line 355
ProgressComplete(r) ==
    ProgressStep(r, "p100o", Scaled(100, run[r]),
                 OptimizeReturn(Report(run[r], Scaled(100, run[r]))))

\* the completion of the try block becomes the outcome of the call
Settle(s) ==
    [s EXCEPT !.pc = "done",
              !.outcome = IF s.completion.kind = "return"
                          THEN [kind |-> "fulfilled", value |-> s.completion.value]
                          ELSE [kind |-> "rejected", error |-> s.completion.error]]

\* a finally block without the inner try/catch: a close failure replaces the completion
SettleAfterClose_noCatch(s, closed) ==
    IF closed THEN Settle(s)
    ELSE [s EXCEPT !.pc = "done", !.closeFailed = TRUE,
                   !.outcome = [kind |-> "rejected", error |-> "deleteSession failed"]]

\* lines 368-378: the close failure is caught and logged
SettleAfterClose(s, closed) ==
    IF closed THEN Settle(s) ELSE Settle([s EXCEPT !.closeFailed = TRUE])

\* a cleanup that runs on the success path only
NeedsClose_onReturnOnly(s) == s.sessionId # NoSession /\ s.completion.kind = "return"

\* line 367: `if (sessionId)`
NeedsClose(s) == s.sessionId # NoSession

\* a finally block that closes the session the process created last
Finally_closesLatest(r) ==
    /\ run[r].pc = "finally"
    /\ IF NeedsClose(run[r])
       THEN LET latest == BrowserUseSessionIds[buCreated]
                s(closed) == Called(run[r], "deleteSession", latest, "-", [ok |-> closed])
            IN
              \/ /\ run' = [run EXCEPT ![r] = SettleAfterClose(s(TRUE), TRUE)]
                 /\ buOpen' = buOpen \ {latest}
              \/ /\ run' = [run EXCEPT ![r] = SettleAfterClose(s(FALSE), FALSE)]
                 /\ UNCHANGED buOpen
       ELSE /\ run' = [run EXCEPT ![r] = Settle(run[r])]
            /\ UNCHANGED buOpen
    /\ UNCHANGED <<buCreated, notOptimizerVars>>

\* lines 366-380: the finally block
Finally(r) ==
    /\ run[r].pc = "finally"
    /\ IF NeedsClose(run[r])
       THEN LET s(closed) == Called(run[r], "deleteSession", run[r].sessionId, "-",
                                    [ok |-> closed])
            IN
              \/ /\ run' = [run EXCEPT ![r] = SettleAfterClose(s(TRUE), TRUE)]
                 /\ buOpen' = buOpen \ {run[r].sessionId}
              \/ /\ run' = [run EXCEPT ![r] = SettleAfterClose(s(FALSE), FALSE)]
                 /\ UNCHANGED buOpen
       ELSE /\ run' = [run EXCEPT ![r] = Settle(run[r])]
            /\ UNCHANGED buOpen
    /\ UNCHANGED <<buCreated, notOptimizerVars>>

\* thresholdsMet not yet called
IdleTm == [aiDetectionPercent |-> Null, plagiarismPercent |-> Null,
           maxAiPercent |-> DefaultMaxAiPercent,
           maxPlagiarismPercent |-> DefaultMaxPlagiarismPercent,
           evaluated |-> FALSE, result |-> FALSE]

\* JavaScript undefined of an optional value
Undefined == "undefined"
\* a password is a string of tokens; this one stands for an undefined password
NoPassword == <<Undefined>>

\* a provider nobody has constructed
NoProvider == [pc |-> "off"]
\* no scoring task started
IdleTask == [pc |-> "off"]
\* no proxy configuration evaluated
IdleCfg == [stage |-> "off"]

\* ------------------------------------------ BrowserbaseSessionManager
\* (sessionManager.ts; line numbers are those of src/CHANGELOG.md)
Callers == {1, 2}
\* null / undefined of a context id
NoContext == "none"
\* null of cachedSessionId
NoBbSession == "none"
\* the session and context a configuration may name (lines 100-101)
ConfigSessionId == "bb-0"
ConfigContextId == "ctx-0"
\* ids the Browserbase backend hands out, in order
BrowserbaseSessionIds == <<"bb-1", "bb-2">>
BrowserbaseContextIds == <<"ctx-1", "ctx-2">>
AllBbSessionIds == {ConfigSessionId} \cup {BrowserbaseSessionIds[i] : i \in DOMAIN BrowserbaseSessionIds}

\* option bags a caller passes for the proxy
ProxyOptionSamples ==
    {[proxyEnabled |-> Undefined, proxyType |-> Undefined, proxyServer |-> Undefined,
      proxyCountry |-> Undefined, proxyUsername |-> Undefined, proxyPassword |-> NoPassword],
     [proxyEnabled |-> "true", proxyType |-> "external", proxyServer |-> Undefined,
      proxyCountry |-> Undefined, proxyUsername |-> "user", proxyPassword |-> <<"p">>]}

GetOrCreateOptions ==
    {[contextId |-> cx, forceNew |-> fn, proxy |-> px] :
        cx \in {NoContext, ConfigContextId}, fn \in BOOLEAN, px \in ProxyOptionSamples}

\* JavaScript truthiness of an option value
Truthy(v) == v \notin {Undefined, "false", ""}

\* a builder that looks at the country before it looks at the type
buildProxyConfig_countryFirst(options) ==
    IF ~Truthy(options.proxyEnabled)
    THEN [threw |-> FALSE, proxies |-> Undefined]
    ELSE IF Truthy(options.proxyCountry)
         THEN [threw |-> FALSE,
               proxies |-> <<[type |-> "browserbase",
                              geolocation |-> [country |-> options.proxyCountry]]>>]
         ELSE IF options.proxyType = "external"
              THEN IF ~Truthy(options.proxyServer)
                   THEN [threw |-> TRUE, proxies |-> Undefined]
                   ELSE [threw |-> FALSE,
                         proxies |-> <<[type |-> "external", server |-> options.proxyServer,
                                        username |-> options.proxyUsername,
                                        password |-> options.proxyPassword]>>]
              ELSE [threw |-> FALSE, proxies |-> "true"]

\* lines 306-355
buildProxyConfig(options) ==
    IF ~Truthy(options.proxyEnabled)
    THEN [threw |-> FALSE, proxies |-> Undefined]
    ELSE IF options.proxyType = "external"
         THEN IF ~Truthy(options.proxyServer)
              THEN [threw |-> TRUE, proxies |-> Undefined]
              ELSE [threw |-> FALSE,
                    proxies |-> <<[type |-> "external", server |-> options.proxyServer,
                                   username |-> options.proxyUsername,
                                   password |-> options.proxyPassword]>>]
         ELSE IF Truthy(options.proxyCountry)
              THEN [threw |-> FALSE,
                    proxies |-> <<[type |-> "browserbase",
                                   geolocation |-> [country |-> options.proxyCountry]]>>]
              ELSE [threw |-> FALSE, proxies |-> "true"]

IdleCall ==
    [pc |-> "idle", op |-> "none", options |-> [contextId |-> NoContext, forceNew |-> FALSE],
     arg |-> NoBbSession, probeId |-> NoBbSession, probe |-> "none",
     contextId |-> NoContext, needsLogin |-> FALSE, sessionId |-> NoBbSession,
     released |-> "none", creates |-> 0, contextCreates |-> 0,
     via |-> "none", outcome |-> [kind |-> "pending"]]

\* bb.sessions.retrieve(id): the status of a known session, or an error
RetrieveResponses(id) ==
    {"error"} \cup (IF bbStatus[id] = "NONE" THEN {} ELSE {bbStatus[id]})

\* a liveness probe that reports every session as expired
isSessionActive_neverActive(response) == FALSE

\* a liveness probe that takes a retrieval error for a live session
isSessionActive_errorIsActive(response) == response \in {"RUNNING", "error"}

\* lines 127-135: RUNNING is active, any other status and any error is not
isSessionActive(response) == response = "RUNNING"

CallReturns(k, via, value) ==
    [k EXCEPT !.pc = "done", !.via = via, !.outcome = [kind |-> "fulfilled", value |-> value]]
CallThrows(k, e) ==
    [k EXCEPT !.pc = "done", !.outcome = [kind |-> "rejected", error |-> e]]

\* lines 184-218: build the proxy payload, then issue the create-session call
BuildAndCreate(k) ==
    IF buildProxyConfig(k.options.proxy).threw
    THEN CallThrows(k, "proxyType='external' requires proxyServer")
    ELSE [k EXCEPT !.pc = "create"]

\* a resolution that prefers the cached context to the caller's option
ResolveContext_cachedFirst(k) ==
    LET contextId == IF cachedContextId # NoContext THEN cachedContextId
                     ELSE k.options.contextId
    IN IF contextId = NoContext
       THEN [k EXCEPT !.pc = "context"]
       ELSE BuildAndCreate([k EXCEPT !.contextId = contextId, !.needsLogin = FALSE])

\* lines 173-182: explicit option, else cached context, else auto-create
ResolveContext(k) ==
    LET contextId == IF k.options.contextId # NoContext THEN k.options.contextId
                     ELSE cachedContextId
    IN IF contextId = NoContext
       THEN [k EXCEPT !.pc = "context"]
       ELSE BuildAndCreate([k EXCEPT !.contextId = contextId, !.needsLogin = FALSE])

\* a call that probes the cached session whatever forceNew says
getOrCreateSessionCall_ignoresForceNew(options) ==
    LET k == [IdleCall EXCEPT !.op = "getOrCreateSession", !.options = options] IN
      IF cachedSessionId # NoBbSession
      THEN [k EXCEPT !.pc = "probe", !.probeId = cachedSessionId]
      ELSE ResolveContext(k)

\* lines 141-171: the call, up to its first await
getOrCreateSessionCall(options) ==
    LET k == [IdleCall EXCEPT !.op = "getOrCreateSession", !.options = options] IN
      IF ~options.forceNew /\ cachedSessionId # NoBbSession
      THEN [k EXCEPT !.pc = "probe", !.probeId = cachedSessionId]
      ELSE ResolveContext(k)

\* a caller of the session manager asks for a session
getOrCreateSession(c) ==
    /\ call[c].pc \in {"idle", "done"}
    /\ \E options \in GetOrCreateOptions :
         call' = [call EXCEPT ![c] = getOrCreateSessionCall(options)]
    /\ UNCHANGED <<cachedSessionId, cachedContextId, bbStatus, bbSessionContext, bbSessionsCreated,
                   bbContextsCreated, notManagerVars>>

\* lines 160-171: the liveness probe resolves
AwaitIsSessionActive(c) ==
    /\ call[c].pc = "probe"
    /\ \E response \in RetrieveResponses(call[c].probeId) :
         LET k == [call[c] EXCEPT !.probe = response] IN
           call' = [call EXCEPT ![c] =
                      IF isSessionActive(response)
                      THEN CallReturns(k, "reuse",
                                       [sessionId |-> cachedSessionId,
                                        contextId |-> cachedContextId])
                      ELSE ResolveContext(k)]
    /\ UNCHANGED <<cachedSessionId, cachedContextId, bbStatus, bbSessionContext, bbSessionsCreated,
                   bbContextsCreated, notManagerVars>>

\* lines 178-182 and 274-285: createContext resolves
AwaitCreateContext(c) ==
    /\ call[c].pc = "context"
    /\ LET k == [call[c] EXCEPT !.contextCreates = @ + 1] IN
         \/ /\ bbContextsCreated < Len(BrowserbaseContextIds)
            /\ LET id == BrowserbaseContextIds[bbContextsCreated + 1] IN
                 /\ cachedContextId' = id
                 /\ bbContextsCreated' = bbContextsCreated + 1
                 /\ call' = [call EXCEPT ![c] =
                               BuildAndCreate([k EXCEPT !.contextId = id, !.needsLogin = TRUE])]
         \/ /\ call' = [call EXCEPT ![c] = CallThrows(k, "contexts.create failed")]
            /\ UNCHANGED <<cachedContextId, bbContextsCreated>>
    /\ UNCHANGED <<cachedSessionId, bbStatus, bbSessionContext, bbSessionsCreated, notManagerVars>>

\* a create path that caches the session id and leaves the context cache alone
AwaitSessionsCreate_keepsContext(c) ==
    /\ call[c].pc = "create"
    /\ LET k == [call[c] EXCEPT !.creates = @ + 1] IN
         \/ /\ bbSessionsCreated < Len(BrowserbaseSessionIds)
            /\ LET id == BrowserbaseSessionIds[bbSessionsCreated + 1] IN
                 /\ cachedSessionId' = id
                 /\ cachedContextId' = cachedContextId
                 /\ bbStatus' = [bbStatus EXCEPT ![id] = "RUNNING"]
                 /\ bbSessionContext' = [bbSessionContext EXCEPT ![id] = k.contextId]
                 /\ bbSessionsCreated' = bbSessionsCreated + 1
                 /\ call' = [call EXCEPT ![c] = [k EXCEPT !.sessionId = id, !.pc = "debug"]]
         \/ /\ call' = [call EXCEPT ![c] = CallThrows(k, "sessions.create failed")]
            /\ UNCHANGED <<cachedSessionId, cachedContextId, bbStatus, bbSessionContext, bbSessionsCreated>>
    /\ UNCHANGED <<bbContextsCreated, notManagerVars>>

\* a create path that keeps a session id another call has cached meanwhile
AwaitSessionsCreate_keepFirst(c) ==
    /\ call[c].pc = "create"
    /\ LET k == [call[c] EXCEPT !.creates = @ + 1] IN
         \/ /\ bbSessionsCreated < Len(BrowserbaseSessionIds)
            /\ LET id == BrowserbaseSessionIds[bbSessionsCreated + 1]
                   newContextId == k.contextId
               IN /\ cachedSessionId' = IF cachedSessionId \in {NoBbSession, k.probeId}
                                        THEN id ELSE cachedSessionId
                  /\ cachedContextId' = IF newContextId # NoContext THEN newContextId
                                        ELSE cachedContextId
                  /\ bbStatus' = [bbStatus EXCEPT ![id] = "RUNNING"]
                  /\ bbSessionContext' = [bbSessionContext EXCEPT ![id] = k.contextId]
                  /\ bbSessionsCreated' = bbSessionsCreated + 1
                  /\ call' = [call EXCEPT ![c] = [k EXCEPT !.sessionId = id, !.pc = "debug"]]
         \/ /\ call' = [call EXCEPT ![c] = CallThrows(k, "sessions.create failed")]
            /\ UNCHANGED <<cachedSessionId, cachedContextId, bbStatus, bbSessionContext, bbSessionsCreated>>
    /\ UNCHANGED <<bbContextsCreated, notManagerVars>>

\* lines 218-227: bb.sessions.create resolves; the response echoes the context
AwaitSessionsCreate(c) ==
    /\ call[c].pc = "create"
    /\ LET k == [call[c] EXCEPT !.creates = @ + 1] IN
         \/ /\ bbSessionsCreated < Len(BrowserbaseSessionIds)
            /\ LET id == BrowserbaseSessionIds[bbSessionsCreated + 1]
                   newContextId == k.contextId
               IN /\ cachedSessionId' = id
                  /\ cachedContextId' = IF newContextId # NoContext THEN newContextId
                                        ELSE cachedContextId
                  /\ bbStatus' = [bbStatus EXCEPT ![id] = "RUNNING"]
                  /\ bbSessionContext' = [bbSessionContext EXCEPT ![id] = k.contextId]
                  /\ bbSessionsCreated' = bbSessionsCreated + 1
                  /\ call' = [call EXCEPT ![c] = [k EXCEPT !.sessionId = id, !.pc = "debug"]]
         \/ /\ call' = [call EXCEPT ![c] = CallThrows(k, "sessions.create failed")]
            /\ UNCHANGED <<cachedSessionId, cachedContextId, bbStatus, bbSessionContext, bbSessionsCreated>>
    /\ UNCHANGED <<bbContextsCreated, notManagerVars>>

\* lines 229-245 and 290-298: getDebugUrl resolves to a URL or null, then return
AwaitGetDebugUrl(c) ==
    /\ call[c].pc = "debug"
    /\ \E debugUrl \in {"https://debug.url", Undefined} :
         call' = [call EXCEPT ![c] =
                    CallReturns(call[c], "create",
                                [sessionId |-> call[c].sessionId,
                                 contextId |-> call[c].contextId,
                                 status |-> "RUNNING",
                                 needsLogin |-> call[c].needsLogin,
                                 debugUrl |-> debugUrl])]
    /\ UNCHANGED <<cachedSessionId, cachedContextId, bbStatus, bbSessionContext, bbSessionsCreated,
                   bbContextsCreated, notManagerVars>>

\* lines 252-257: the call issues the release request
closeSessionCall(sessionId) ==
    [IdleCall EXCEPT !.op = "closeSession", !.arg = sessionId, !.pc = "update"]

\* a caller of the session manager closes a session
closeSession(c) ==
    /\ call[c].pc \in {"idle", "done"}
    /\ \E id \in AllBbSessionIds : call' = [call EXCEPT ![c] = closeSessionCall(id)]
    /\ UNCHANGED <<cachedSessionId, cachedContextId, bbStatus, bbSessionContext, bbSessionsCreated,
                   bbContextsCreated, notManagerVars>>

\* a close that clears the cache before the release request is known to succeed
AfterRelease_clearFirst(cached, sessionId, released) ==
    IF cached = sessionId THEN NoBbSession ELSE cached

\* a close that clears the cache whatever id was closed
AfterRelease_clearAny(cached, sessionId, released) ==
    IF released THEN NoBbSession ELSE cached

\* lines 253-267: cachedSessionId after the release request resolved
AfterRelease(cached, sessionId, released) ==
    IF released /\ cached = sessionId THEN NoBbSession ELSE cached

\* a close without the catch block
closeSessionCompletion_rethrow(released) ==
    IF released THEN [kind |-> "fulfilled", value |-> Undefined]
    ELSE [kind |-> "rejected", error |-> "sessions.update failed"]

\* lines 253, 265-267: the catch block logs the failure and the call returns
closeSessionCompletion(released) == [kind |-> "fulfilled", value |-> Undefined]

\* lines 254-267: bb.sessions.update resolves or rejects
AwaitSessionsUpdate(c) ==
    /\ call[c].pc = "update"
    /\ \E released \in BOOLEAN :
         /\ released => bbStatus[call[c].arg] # "NONE"
         /\ cachedSessionId' = AfterRelease(cachedSessionId, call[c].arg, released)
         /\ bbStatus' = IF released THEN [bbStatus EXCEPT ![call[c].arg] = "COMPLETED"]
                        ELSE bbStatus
         /\ call' = [call EXCEPT ![c] =
                       [call[c] EXCEPT !.pc = "done",
                                       !.released = IF released THEN "ok" ELSE "failed",
                                       !.outcome = closeSessionCompletion(released)]]
    /\ UNCHANGED <<cachedContextId, bbSessionContext, bbSessionsCreated, bbContextsCreated,
                   notManagerVars>>

\* the backend ends a running session (timeout or disconnect)
SessionEnds(id) ==
    /\ bbStatus[id] = "RUNNING"
    /\ bbStatus' = [bbStatus EXCEPT ![id] = "COMPLETED"]
    /\ UNCHANGED <<cachedSessionId, cachedContextId, bbSessionContext, bbSessionsCreated,
                   bbContextsCreated, call, notManagerVars>>

\* a manager nobody has constructed: the state of the other specifications
NoManager ==
    /\ cachedSessionId = NoBbSession
    /\ cachedContextId = NoContext
    /\ bbStatus = [id \in AllBbSessionIds |-> "NONE"]
    /\ bbSessionContext = [id \in AllBbSessionIds |-> NoContext]
    /\ bbSessionsCreated = 0
    /\ bbContextsCreated = 0
    /\ call = [c \in Callers |-> IdleCall]

\* lines 89-108: the constructor takes the cached ids from the configuration
InitManager ==
    /\ cachedSessionId \in {NoBbSession, ConfigSessionId}
    /\ cachedContextId \in {NoContext, ConfigContextId}
    /\ \E status \in {"NONE", "RUNNING", "COMPLETED"} :
         bbStatus = [id \in AllBbSessionIds |-> IF id = ConfigSessionId THEN status ELSE "NONE"]
    /\ bbSessionContext = [id \in AllBbSessionIds |-> NoContext]
    /\ bbSessionsCreated = 0
    /\ bbContextsCreated = 0
    /\ call = [c \in Callers |-> IdleCall]
    /\ run = [r \in RunIds |-> OffRun]
    /\ buOpen = {}
    /\ buCreated = 0
    /\ tm = IdleTm
    /\ provider = NoProvider
    /\ task = IdleTask
    /\ cfg = IdleCfg

ManagerStep(c) ==
    \/ getOrCreateSession(c)
    \/ AwaitIsSessionActive(c)
    \/ AwaitCreateContext(c)
    \/ AwaitSessionsCreate(c)
    \/ AwaitGetDebugUrl(c)
    \/ closeSession(c)
    \/ AwaitSessionsUpdate(c)

\* caller 1 uses the whole interface; caller 2 closes sessions concurrently
CloserStep(c) ==
    \/ closeSession(c)
    \/ AwaitSessionsUpdate(c)

NextManager ==
    \/ ManagerStep(1)
    \/ CloserStep(2)
    \/ \E id \in AllBbSessionIds : SessionEnds(id)

SpecManager == InitManager /\ [][NextManager]_vars

\* two callers each make one getOrCreateSession call on the same manager; the
\* event loop interleaves them at every await
RaceStep(c) ==
    \/ call[c].pc = "idle" /\ getOrCreateSession(c)
    \/ AwaitIsSessionActive(c)
    \/ AwaitCreateContext(c)
    \/ AwaitSessionsCreate(c)
    \/ AwaitGetDebugUrl(c)

NextRace ==
    \/ \E c \in Callers : RaceStep(c)
    \/ \E id \in AllBbSessionIds : SessionEnds(id)

SpecRace == InitManager /\ [][NextRace]_vars

\* ------------------------------------- proxy configuration (config.ts)
\* a string that matters only through its substrings is a sequence of tokens:
\* "p_country-us" is <<"p", "_", "country-", "us">>
PasswordTokens == {"p", "_", "country-", "session-", "lifetime-"}
Passwords == UNION {[1..n -> PasswordTokens] : n \in 0..MaxPasswordLen}
\* truthiness of an optional string of tokens
TruthyPassword(password) == password # NoPassword /\ password # <<>>

\* String.prototype.includes
includes(s, needle) ==
    \E i \in 1..(Len(s) - Len(needle) + 1) : SubSeq(s, i, i + Len(needle) - 1) = needle
\* String.prototype.toLowerCase / toUpperCase on the country codes in use
toLowerCase(v) == IF v = "US" THEN "us" ELSE v
toUpperCase(v) == IF v = "us" THEN "US" ELSE v

\* Array.prototype.join("_")
RECURSIVE join(_)
join(parts) ==
    IF Len(parts) = 0 THEN <<>>
    ELSE IF Len(parts) = 1 THEN parts[1]
    ELSE parts[1] \o <<"_">> \o join(Tail(parts))

\* a builder that appends the session parameter before the country
buildIproyalPassword_sessionFirst(basePassword, options) ==
    LET country == IF Truthy(options.country)
                   THEN << <<"country-", toLowerCase(options.country)>> >> ELSE <<>>
        session == IF Truthy(options.sessionId)
                   THEN << <<"session-", options.sessionId>> >> ELSE <<>>
        lifetime == IF Truthy(options.sessionLifetime)
                    THEN << <<"lifetime-", options.sessionLifetime>> >> ELSE <<>>
    IN join(<<basePassword>> \o session \o country \o lifetime)

\* lines 499-518
buildIproyalPassword(basePassword, options) ==
    LET country == IF Truthy(options.country)
                   THEN << <<"country-", toLowerCase(options.country)>> >> ELSE <<>>
        session == IF Truthy(options.sessionId)
                   THEN << <<"session-", options.sessionId>> >> ELSE <<>>
        lifetime == IF Truthy(options.sessionLifetime)
                    THEN << <<"lifetime-", options.sessionLifetime>> >> ELSE <<>>
    IN join(<<basePassword>> \o country \o session \o lifetime)

\* appConfig.proxyConfig === null
NullProxyConfig == [isNull |-> TRUE]
ValidServer == "http://proxy.example.com:8080"
InvalidServer == "not-a-url"

\* a password builder without the check for parameters already present
formatProxyPassword_alwaysBuild(proxy) ==
    IF TruthyPassword(proxy.password)
    THEN buildIproyalPassword(proxy.password, proxy)
    ELSE NoPassword

\* lines 625-644: the proxyPassword of getSessionOptions
formatProxyPassword(proxy) ==
    IF TruthyPassword(proxy.password)
    THEN IF \/ includes(proxy.password, <<"_", "country-">>)
            \/ includes(proxy.password, <<"_", "session-">>)
            \/ includes(proxy.password, <<"_", "lifetime-">>)
         THEN proxy.password
         ELSE buildIproyalPassword(proxy.password, proxy)
    ELSE NoPassword

\* lines 593-669, the proxy fields of the result (the stealth fields and the
\* viewport do not depend on the proxy configuration)
getSessionOptions(proxy) ==
    IF proxy = NullProxyConfig
    THEN [proxyCountry |-> Undefined, proxyEnabled |-> "false", proxyType |-> Undefined,
          proxyServer |-> Undefined, proxyUsername |-> Undefined, proxyPassword |-> NoPassword]
    ELSE LET proxyCountry == toUpperCase(proxy.country)
             isExternalProxy == proxy.type = "external"
             proxyEnabled == /\ proxy.enabled # "false"
                             /\ IF isExternalProxy THEN Truthy(proxy.server)
                                ELSE Truthy(proxyCountry)
         IN [proxyCountry |-> proxyCountry,
             proxyEnabled |-> IF proxyEnabled THEN "true" ELSE "false",
             proxyType |-> proxy.type,
             proxyServer |-> proxy.server,
             proxyUsername |-> proxy.username,
             proxyPassword |-> formatProxyPassword(proxy)]

\* a schema whose refinement asks an external proxy for its server only
ProxyConfigSchema_serverOnly(data) ==
    IF data.server = InvalidServer \/ (data.type = "external" /\ ~Truthy(data.server))
    THEN [success |-> FALSE, data |-> NullProxyConfig]
    ELSE [success |-> TRUE,
          data |-> [data EXCEPT !.enabled = IF @ = Undefined THEN "true" ELSE @,
                                !.country = toUpperCase(@),
                                !.type = IF @ = Undefined THEN "browserbase" ELSE @]]

\* lines 95-122: field checks, defaults, then the refinement for external
ProxyConfigSchema(data) ==
    LET parsed == [data EXCEPT !.enabled = IF @ = Undefined THEN "true" ELSE @,
                               !.country = toUpperCase(@),
                               !.type = IF @ = Undefined THEN "browserbase" ELSE @]
    IN IF data.server = InvalidServer
       THEN [success |-> FALSE, data |-> NullProxyConfig]
       ELSE IF \/ parsed.type # "external"
               \/ /\ Truthy(parsed.server)
                  /\ Truthy(parsed.username)
                  /\ TruthyPassword(parsed.password)
            THEN [success |-> TRUE, data |-> parsed]
            ELSE [success |-> FALSE, data |-> NullProxyConfig]

\* lines 329-360: an invalid PROXY_CONFIG is logged and replaced by null
parseJsonConfigEarly(value) == ProxyConfigSchema(value).data

\* part_002 lines 38-51: the proxy options createSession hands to the manager
ForwardProxyOptions(options) ==
    LET on == Truthy(options.proxyEnabled) IN
      [proxyEnabled |-> options.proxyEnabled,
       proxyCountry |-> IF on THEN options.proxyCountry ELSE Undefined,
       proxyType |-> IF on THEN options.proxyType ELSE Undefined,
       proxyServer |-> IF on THEN options.proxyServer ELSE Undefined,
       proxyUsername |-> IF on THEN options.proxyUsername ELSE Undefined,
       proxyPassword |-> IF on THEN options.proxyPassword ELSE NoPassword]

\* PROXY_CONFIG values: every password with IPRoyal options on an external
\* proxy, and every shape of proxy with a plain password
ProxyConfigInputs ==
    {[enabled |-> Undefined, country |-> c, type |-> "external", server |-> ValidServer,
      username |-> "user", password |-> pw, sessionId |-> sid, sessionLifetime |-> lt] :
        c \in {Undefined, "US"}, pw \in Passwords,
        sid \in {Undefined, "abc12345"}, lt \in {Undefined, "30m"}}
    \cup
    {[enabled |-> en, country |-> c, type |-> ty, server |-> sv,
      username |-> un, password |-> pw, sessionId |-> Undefined, sessionLifetime |-> Undefined] :
        en \in {Undefined, "true", "false"}, c \in {Undefined, "us"},
        ty \in {Undefined, "browserbase", "external"},
        sv \in {Undefined, ValidServer, InvalidServer},
        un \in {Undefined, "user"}, pw \in {NoPassword, <<"p">>}}

\* the options argument of buildIproyalPassword; a missing argument and an
\* empty object both read as undefined in every field
IproyalOptions ==
    {[country |-> c, sessionId |-> sid, sessionLifetime |-> lt] :
        c \in {Undefined, "", "US", "us"},
        sid \in {Undefined, "abc12345"}, lt \in {Undefined, "30m"}}

InitConfig ==
    /\ cfg \in {[stage |-> "input", value |-> v, proxyConfig |-> NullProxyConfig,
                 iproyalOptions |-> [country |-> Undefined, sessionId |-> Undefined,
                                     sessionLifetime |-> Undefined],
                 iproyal |-> NoPassword,
                 parsed |-> FALSE, accepted |-> FALSE,
                 options |-> getSessionOptions(NullProxyConfig),
                 rebuilt |-> NoPassword, isRebuilt |-> FALSE,
                 payload |-> [threw |-> FALSE, proxies |-> Undefined], isBuilt |-> FALSE] :
                   v \in ProxyConfigInputs}
    /\ run = [r \in RunIds |-> OffRun]
    /\ buOpen = {}
    /\ buCreated = 0
    /\ tm = IdleTm
    /\ NoManager
    /\ provider = NoProvider
    /\ task = IdleTask

\* the configuration arrives through PROXY_CONFIG and the schema
LoadParsed ==
    /\ cfg.stage = "input"
    /\ cfg' = [cfg EXCEPT !.stage = "config", !.parsed = TRUE,
                          !.accepted = ProxyConfigSchema(cfg.value).success,
                          !.proxyConfig = parseJsonConfigEarly(cfg.value)]
    /\ UNCHANGED <<run, buOpen, buCreated, tm, managerVars, provider, task>>

\* the configuration is the proxyConfig of an AppConfig built by the caller
LoadDirect ==
    /\ cfg.stage = "input"
    /\ cfg' = [cfg EXCEPT !.stage = "config", !.proxyConfig = cfg.value]
    /\ UNCHANGED <<run, buOpen, buCreated, tm, managerVars, provider, task>>

\* buildIproyalPassword called on the configured password
EvalBuildIproyalPassword ==
    /\ cfg.stage = "input"
    /\ cfg.value.password # NoPassword
    /\ \E options \in IproyalOptions :
         cfg' = [cfg EXCEPT !.stage = "iproyal", !.iproyalOptions = options,
                            !.iproyal = buildIproyalPassword(cfg.value.password, options)]
    /\ UNCHANGED <<run, buOpen, buCreated, tm, managerVars, provider, task>>

EvalGetSessionOptions ==
    /\ cfg.stage = "config"
    /\ cfg' = [cfg EXCEPT !.stage = "options", !.options = getSessionOptions(cfg.proxyConfig)]
    /\ UNCHANGED <<run, buOpen, buCreated, tm, managerVars, provider, task>>

\* the built password is configured as the password of the same proxy
EvalRebuild ==
    /\ cfg.stage = "options" /\ ~cfg.isRebuilt
    /\ cfg.proxyConfig # NullProxyConfig
    /\ cfg' = [cfg EXCEPT !.isRebuilt = TRUE,
                          !.rebuilt = formatProxyPassword(
                              [cfg.proxyConfig EXCEPT !.password = cfg.options.proxyPassword])]
    /\ UNCHANGED <<run, buOpen, buCreated, tm, managerVars, provider, task>>

EvalBuildProxyConfig ==
    /\ cfg.stage = "options" /\ ~cfg.isBuilt
    /\ cfg' = [cfg EXCEPT !.isBuilt = TRUE,
                          !.payload = buildProxyConfig(ForwardProxyOptions(cfg.options))]
    /\ UNCHANGED <<run, buOpen, buCreated, tm, managerVars, provider, task>>

\* part_001 lines 1422-1526: the fields are passed as the options of
\* getOrCreateSession, without going through getSessionOptions
DirectProxyOptions(value) ==
    [proxyEnabled |-> value.enabled, proxyType |-> value.type, proxyServer |-> value.server,
     proxyCountry |-> value.country, proxyUsername |-> value.username,
     proxyPassword |-> value.password]

\* buildProxyConfig called on options given directly
EvalBuildProxyConfigDirect ==
    /\ cfg.stage = "input"
    /\ cfg' = [cfg EXCEPT !.stage = "proxy", !.isBuilt = TRUE,
                          !.options = DirectProxyOptions(cfg.value),
                          !.payload = buildProxyConfig(DirectProxyOptions(cfg.value))]
    /\ UNCHANGED <<run, buOpen, buCreated, tm, managerVars, provider, task>>

NextConfig ==
    \/ LoadParsed
    \/ LoadDirect
    \/ EvalBuildProxyConfigDirect
    \/ EvalBuildIproyalPassword
    \/ EvalGetSessionOptions
    \/ EvalRebuild
    \/ EvalBuildProxyConfig

SpecConfig == InitConfig /\ [][NextConfig]_vars

\* --------------------------------- StagehandProvider (unnamed/part_002)
\* the provider is the manager's caller 1: each of its calls into the manager
\* runs as call[1], and the provider resumes when that call has settled
ProviderCaller == 1
managerState == <<cachedSessionId, cachedContextId, bbStatus, bbSessionContext,
                  bbSessionsCreated, bbContextsCreated>>
notProviderVars == <<run, buOpen, buCreated, tm, task, cfg>>
DebugUrl == "https://debug.url"
\* outcomes of runStagehandGrammarlyTask as scoreText sees them
TaskOutcomes ==
    {[kind |-> "scores", aiDetectionPercent |-> 15, plagiarismPercent |-> 3],
     [kind |-> "GrammarlyAuthError"],
     [kind |-> "Error"]}
\* proxy configurations an AppConfig may carry
ProviderProxyConfigs ==
    {NullProxyConfig} \cup
    {[enabled |-> "true", country |-> Undefined, type |-> "external", server |-> sv,
      username |-> "user", password |-> <<"p">>, sessionId |-> Undefined,
      sessionLifetime |-> Undefined] : sv \in {Undefined, ValidServer}}

\* lines 22-32: a provider with empty maps; contextId is config.browserbaseContextId.
\* stagehandInstances holds the keys of the map; orphaned holds the keys whose
\* handle was replaced by a later set() and is no longer in the map, and
\* releaseAsked the keys for which the provider has called the manager's
\* closeSession since their handle was stored
IdleProvider(contextId) ==
    [pc |-> "idle", op |-> "none", browserbaseContextId |-> contextId,
     stagehandInstances |-> {}, orphaned |-> {}, releaseAsked |-> {},
     sessionDebugUrls |-> [id \in AllBbSessionIds |-> Undefined],
     entry |-> [stagehandInstances |-> {},
                sessionDebugUrls |-> [id \in AllBbSessionIds |-> Undefined]],
     proxyConfig |-> NullProxyConfig, arg |-> NoBbSession,
     sessionInfo |-> [sessionId |-> NoBbSession], initFailed |-> FALSE,
     error |-> "none", scores |-> [kind |-> "none"], log |-> <<>>,
     outcome |-> [kind |-> "pending"]]

\* a call begins: its locals are fresh, the maps are the provider's
BeginCall(p, op) ==
    [IdleProvider(p.browserbaseContextId) EXCEPT
        !.op = op, !.stagehandInstances = p.stagehandInstances,
        !.orphaned = p.orphaned, !.releaseAsked = p.releaseAsked,
        !.sessionDebugUrls = p.sessionDebugUrls,
        !.entry = [stagehandInstances |-> p.stagehandInstances,
                   sessionDebugUrls |-> p.sessionDebugUrls]]
Logged(p, what, arg) == [p EXCEPT !.log = Append(@, [op |-> what, arg |-> arg])]
ProviderReturns(p, value) ==
    [p EXCEPT !.pc = "done", !.outcome = [kind |-> "fulfilled", value |-> value]]
ProviderThrows(p, e) ==
    [p EXCEPT !.pc = "done", !.outcome = [kind |-> "rejected", error |-> e]]
\* a field of a SessionInfo, undefined when the object does not have it
InfoField(info, f) == IF f \in DOMAIN info THEN info[f] ELSE Undefined

\* lines 34-51: createSession calls getOrCreateSession with the config's
\* context and the proxy options of getSessionOptions
P_createSession ==
    /\ provider.pc \in {"idle", "done"}
    /\ \E proxyConfig \in ProviderProxyConfigs :
         LET options == getSessionOptions(proxyConfig)
             p == Logged([BeginCall(provider, "createSession") EXCEPT
                             !.proxyConfig = proxyConfig, !.pc = "getOrCreate"],
                         "getOrCreateSession", "-")
         IN /\ provider' = p
            /\ call' = [call EXCEPT ![ProviderCaller] =
                          getOrCreateSessionCall(
                              [contextId |-> provider.browserbaseContextId,
                               forceNew |-> FALSE,
                               proxy |-> ForwardProxyOptions(options)])]
    /\ UNCHANGED <<managerState, notProviderVars>>

\* lines 38-56: getOrCreateSession settled; its error propagates, its
\* SessionInfo goes to createStagehandInstance
P_AfterGetOrCreate ==
    /\ provider.pc = "getOrCreate"
    /\ call[ProviderCaller].pc = "done"
    /\ LET k == call[ProviderCaller] IN
         provider' = IF k.outcome.kind = "rejected"
                     THEN ProviderThrows(provider, k.outcome.error)
                     ELSE Logged([provider EXCEPT !.pc = "init",
                                                  !.sessionInfo = k.outcome.value],
                                 "stagehand.init", k.outcome.value.sessionId)
    /\ UNCHANGED <<managerVars, notProviderVars>>

\* lines 84-90: the SessionResult
SessionResult(p, liveUrl) ==
    [sessionId |-> p.sessionInfo.sessionId,
     liveUrl |-> liveUrl,
     contextId |-> InfoField(p.sessionInfo, "contextId"),
     needsLogin |-> InfoField(p.sessionInfo, "needsLogin"),
     debugUrl |-> liveUrl]

\* lines 72-90: remember the debug URL if there is one and return
FinishCreate(p, liveUrl) ==
    ProviderReturns(
        [p EXCEPT !.sessionDebugUrls =
            IF liveUrl # Undefined
            THEN [@ EXCEPT ![p.sessionInfo.sessionId] = liveUrl] ELSE @],
        SessionResult(p, liveUrl))

\* a failed initialization that propagates without releasing the session
OnInitFailure_throwOnly(p) ==
    ProviderThrows([p EXCEPT !.initFailed = TRUE, !.error = "Init failed"], "Init failed")

\* lines 58-63: the catch block logs and calls sessionManager.closeSession
OnInitFailure(p) ==
    Logged([p EXCEPT !.initFailed = TRUE, !.error = "Init failed",
                     !.releaseAsked = @ \cup {p.sessionInfo.sessionId},
                     !.pc = "closeAfterInit"],
           "sessionManager.closeSession", p.sessionInfo.sessionId)

\* lines 53-70 and 165-204: createStagehandInstance resolves or rejects
P_AwaitInit ==
    /\ provider.pc = "init"
    /\ \/ LET id == provider.sessionInfo.sessionId
              p == [provider EXCEPT
                       !.stagehandInstances = @ \cup {id},
                       !.orphaned = IF id \in provider.stagehandInstances
                                    THEN @ \cup {id} ELSE @,
                       !.releaseAsked = @ \ {id}]
              debugUrl == InfoField(provider.sessionInfo, "debugUrl")
          IN /\ provider' = IF debugUrl # Undefined THEN FinishCreate(p, debugUrl)
                            ELSE Logged([p EXCEPT !.pc = "liveUrl"], "getDebugUrl",
                                        provider.sessionInfo.sessionId)
             /\ UNCHANGED call
       \/ LET p == OnInitFailure(provider) IN
            /\ provider' = p
            /\ call' = IF p.pc = "closeAfterInit"
                       THEN [call EXCEPT ![ProviderCaller] =
                               closeSessionCall(provider.sessionInfo.sessionId)]
                       ELSE call
    /\ UNCHANGED <<managerState, notProviderVars>>

\* lines 68-70: sessionManager.getDebugUrl resolves to a URL or null
P_AwaitLiveUrl ==
    /\ provider.pc = "liveUrl"
    /\ \E liveUrl \in {DebugUrl, Undefined} : provider' = FinishCreate(provider, liveUrl)
    /\ UNCHANGED <<managerVars, notProviderVars>>

\* lines 63-64: closeSession settled, the initialization error is thrown
P_AfterCloseAfterInit ==
    /\ provider.pc = "closeAfterInit"
    /\ call[ProviderCaller].pc = "done"
    /\ provider' = IF call[ProviderCaller].outcome.kind = "rejected"
                   THEN ProviderThrows(provider, call[ProviderCaller].outcome.error)
                   ELSE ProviderThrows(provider, provider.error)
    /\ UNCHANGED <<managerVars, notProviderVars>>

\* a scoreText that runs the task whether or not it has a handle
scoreTextCall_noGuard(p, sessionId) ==
    Logged([BeginCall(p, "scoreText") EXCEPT !.arg = sessionId, !.pc = "task"],
           "runStagehandGrammarlyTask", sessionId)

\* lines 93-118: look the handle up, throw without one, else start the task
scoreTextCall(p, sessionId) ==
    LET q == [BeginCall(p, "scoreText") EXCEPT !.arg = sessionId] IN
      IF sessionId \notin p.stagehandInstances
      THEN ProviderThrows(q, "No Stagehand instance found for session")
      ELSE Logged([q EXCEPT !.pc = "task"], "runStagehandGrammarlyTask", sessionId)

P_scoreText ==
    /\ provider.pc \in {"idle", "done"}
    /\ \E sessionId \in AllBbSessionIds : provider' = scoreTextCall(provider, sessionId)
    /\ UNCHANGED <<managerVars, notProviderVars>>

\* lines 112-138: the task settles; every error is re-thrown
P_AwaitTask ==
    /\ provider.pc = "task"
    /\ \E result \in TaskOutcomes :
         provider' = IF result.kind = "scores"
                     THEN Logged([provider EXCEPT !.pc = "scoreDebug", !.scores = result],
                                 "getDebugUrl", provider.arg)
                     ELSE ProviderThrows(provider, result.kind)
    /\ UNCHANGED <<managerVars, notProviderVars>>

\* lines 120-127: getDebugUrl resolves and the scores are returned
P_AwaitScoreDebugUrl ==
    /\ provider.pc = "scoreDebug"
    /\ \E liveUrl \in {DebugUrl, Undefined} :
         provider' = ProviderReturns(provider,
                        [aiDetectionPercent |-> provider.scores.aiDetectionPercent,
                         plagiarismPercent |-> provider.scores.plagiarismPercent,
                         liveUrl |-> liveUrl])
    /\ UNCHANGED <<managerVars, notProviderVars>>

\* lines 152-159: forget the handle and the debug URL, then close the session
ForgetAndClose(p) ==
    Logged([p EXCEPT !.stagehandInstances = @ \ {p.arg},
                     !.sessionDebugUrls = [@ EXCEPT ![p.arg] = Undefined],
                     !.releaseAsked = @ \cup {p.arg},
                     !.pc = "managerClose"],
           "sessionManager.closeSession", p.arg)

\* lines 141-159: closeSession, up to its first await
P_closeSession ==
    /\ provider.pc \in {"idle", "done"}
    /\ \E sessionId \in AllBbSessionIds :
         LET p == [BeginCall(provider, "closeSession") EXCEPT !.arg = sessionId] IN
           IF sessionId \in provider.stagehandInstances
           THEN /\ provider' = Logged([p EXCEPT !.pc = "stagehandClose"],
                                      "stagehand.close", sessionId)
                /\ UNCHANGED call
           ELSE /\ provider' = ForgetAndClose(p)
                /\ call' = [call EXCEPT ![ProviderCaller] = closeSessionCall(sessionId)]
    /\ UNCHANGED <<managerState, notProviderVars>>

\* a close without the try block around stagehand.close()
OnStagehandCloseFailure_rethrow(p) == ProviderThrows(p, "Close failed")

\* lines 147-151: the catch block logs the failure and the call goes on
OnStagehandCloseFailure(p) ==
    ForgetAndClose(Logged(p, "warn", "Failed to close Stagehand instance"))

\* lines 147-159: stagehand.close() settles
P_AwaitStagehandClose ==
    /\ provider.pc = "stagehandClose"
    /\ \E closed \in BOOLEAN :
         provider' = IF closed THEN ForgetAndClose(provider)
                     ELSE OnStagehandCloseFailure(provider)
    /\ call' = IF provider'.pc = "managerClose"
               THEN [call EXCEPT ![ProviderCaller] = closeSessionCall(provider.arg)]
               ELSE call
    /\ UNCHANGED <<managerState, notProviderVars>>

\* lines 159-160: the manager's closeSession settled
P_AfterManagerClose ==
    /\ provider.pc = "managerClose"
    /\ call[ProviderCaller].pc = "done"
    /\ provider' = IF call[ProviderCaller].outcome.kind = "rejected"
                   THEN ProviderThrows(provider, call[ProviderCaller].outcome.error)
                   ELSE ProviderReturns(provider, Undefined)
    /\ UNCHANGED <<managerVars, notProviderVars>>

\* lines 29-32: the provider and its manager are built from one AppConfig
InitProvider ==
    /\ cachedSessionId = NoBbSession
    /\ cachedContextId \in {NoContext, ConfigContextId}
    /\ bbStatus = [id \in AllBbSessionIds |-> "NONE"]
    /\ bbSessionContext = [id \in AllBbSessionIds |-> NoContext]
    /\ bbSessionsCreated = 0
    /\ bbContextsCreated = 0
    /\ call = [c \in Callers |-> IdleCall]
    /\ provider = IdleProvider(cachedContextId)
    /\ run = [r \in RunIds |-> OffRun]
    /\ buOpen = {}
    /\ buCreated = 0
    /\ tm = IdleTm
    /\ task = IdleTask
    /\ cfg = IdleCfg

ProviderStep ==
    \/ P_createSession
    \/ P_AfterGetOrCreate
    \/ P_AwaitInit
    \/ P_AwaitLiveUrl
    \/ P_AfterCloseAfterInit
    \/ P_scoreText
    \/ P_AwaitTask
    \/ P_AwaitScoreDebugUrl
    \/ P_closeSession
    \/ P_AwaitStagehandClose
    \/ P_AfterManagerClose

\* the awaits of the manager calls the provider has made
ManagerAwaits(c) ==
    \/ AwaitIsSessionActive(c)
    \/ AwaitCreateContext(c)
    \/ AwaitSessionsCreate(c)
    \/ AwaitGetDebugUrl(c)
    \/ AwaitSessionsUpdate(c)

NextProvider ==
    \/ ProviderStep
    \/ ManagerAwaits(ProviderCaller)
    \/ \E id \in AllBbSessionIds : SessionEnds(id)

SpecProvider == InitProvider /\ [][NextProvider]_vars

\* ------------------- Stagehand scoring task (specification section 4.3)
\* src/browser/stagehand/grammarlyTask.ts is not among the sources; the task
\* follows the specification's eight decision points, with the names its
\* tests use (src/unnamed/part_001, 1..471)
MAX_TEXT_LENGTH == 8000
SHORT_TEXT_THRESHOLD == 500
notTaskVars == <<run, buOpen, buCreated, tm, managerVars, provider, cfg>>

\* a text is a run of characters of the caller's payload: those at positions
\* first .. first + length - 1
TaskTextLengths == {15, SHORT_TEXT_THRESHOLD, SHORT_TEXT_THRESHOLD + 1,
                    MAX_TEXT_LENGTH, MAX_TEXT_LENGTH + 1, 10000}
TaskTexts == {[first |-> 1, length |-> n] : n \in TaskTextLengths}
\* text.slice(0, n)
SliceFromStart(text, n) == [first |-> text.first, length |-> Min2(text.length, n)]
\* step 5: text longer than the hard cap is truncated to the cap
truncate(text) ==
    IF text.length > MAX_TEXT_LENGTH THEN SliceFromStart(text, MAX_TEXT_LENGTH) ELSE text

\* a split that sends a text of exactly the threshold length to the fill path
InputPath_strict(text) == IF text.length < SHORT_TEXT_THRESHOLD THEN "type" ELSE "fill"

\* step 5: at or below the short-form threshold the text is typed, else filled
InputPath(text) == IF text.length <= SHORT_TEXT_THRESHOLD THEN "type" ELSE "fill"

PageUrls == {"https://other-site.com", "https://app.grammarly.com/docs",
             "https://app.grammarly.com/signin", "https://app.grammarly.com/login",
             "https://app.grammarly.com/signup"}
\* step 2: the URL belongs to the application's host
OnGrammarly(url) == url # "https://other-site.com"
\* step 3: sign-in, login and signup paths
SignedOutPath(url) ==
    url \in {"https://app.grammarly.com/signin", "https://app.grammarly.com/login",
             "https://app.grammarly.com/signup"}
ObserveResults == {"element", "empty", "undefined", "error"}
ExtractedScores ==
    {[aiDetectionPercent |-> 15, plagiarismPercent |-> 3, notes |-> <<"Scores extracted">>],
     [aiDetectionPercent |-> Null, plagiarismPercent |-> Null, notes |-> <<"Premium features not available">>]}
PartialExtractionNote == "partial extraction"

NewTask ==
    [pc |-> "idle", text |-> [first |-> 1, length |-> 0], debugUrl |-> Undefined,
     url |-> "https://app.grammarly.com/docs", loggedIn |-> "unknown",
     authObserved |-> "none", hasPage |-> TRUE, navigation |-> "none",
     observed |-> "none", input |-> [via |-> "none", text |-> [first |-> 1, length |-> 0]],
     primary |-> "none", fallback |-> "none", log |-> <<>>,
     outcome |-> [kind |-> "pending"]]

Did(t, what) == [t EXCEPT !.log = Append(@, what)]
TaskReturns(t, value) ==
    [t EXCEPT !.pc = "done", !.outcome = [kind |-> "fulfilled", value |-> value]]
TaskThrows(t, e) ==
    [t EXCEPT !.pc = "done", !.outcome = [kind |-> "rejected", error |-> e]]

\* step 1 and the test of step 2: take the first page or fail
runStagehandGrammarlyTask ==
    /\ task.pc \in {"idle", "done"}
    /\ \E text \in TaskTexts, debugUrl \in {DebugUrl, Undefined},
          hasPage \in BOOLEAN, url \in PageUrls :
         LET t == [NewTask EXCEPT !.text = text, !.debugUrl = debugUrl, !.url = url,
                                  !.hasPage = hasPage] IN
           task' = IF ~hasPage
                   THEN TaskThrows(t, [name |-> "Error",
                                       message |-> "No page available in Stagehand context"])
                   ELSE IF OnGrammarly(url) THEN [t EXCEPT !.pc = "auth"]
                   ELSE Did([t EXCEPT !.pc = "navigate"], "goto")
    /\ UNCHANGED notTaskVars

\* a navigation whose timed-out wait ends the task
T_Navigate_timeoutAborts ==
    /\ task.pc = "navigate"
    /\ \E landed \in {"https://app.grammarly.com/docs", "https://app.grammarly.com/signin"},
          navigation \in {"settled", "timeout"} :
         task' = IF navigation = "timeout"
                 THEN TaskThrows([task EXCEPT !.navigation = navigation],
                                 [name |-> "Error", message |-> "Timeout waiting for network idle"])
                 ELSE [task EXCEPT !.pc = "auth", !.url = landed, !.navigation = navigation]
    /\ UNCHANGED notTaskVars

\* step 2: the navigation settles or its wait times out; the task goes on
T_Navigate ==
    /\ task.pc = "navigate"
    /\ \E landed \in {"https://app.grammarly.com/docs", "https://app.grammarly.com/signin"},
          navigation \in {"settled", "timeout"} :
         task' = [task EXCEPT !.pc = "auth", !.url = landed, !.navigation = navigation]
    /\ UNCHANGED notTaskVars

\* an authentication failure handed to the extraction fallback
OnNotLoggedIn_triesFallback(t) ==
    Did([t EXCEPT !.loggedIn = "no", !.pc = "fallback", !.primary = "GrammarlyAuthError"],
        "extract:fallback")

\* step 3: not authenticated raises the authentication error with the debug URL
OnNotLoggedIn(t) ==
    TaskThrows([t EXCEPT !.loggedIn = "no"],
               [name |-> "GrammarlyAuthError", debugUrl |-> t.debugUrl])

\* a check that takes a failed observation for an authenticated page
checkGrammarlyAuthStatus_errorIsLoggedIn ==
    /\ task.pc = "auth"
    /\ IF SignedOutPath(task.url)
       THEN task' = OnNotLoggedIn(task)
       ELSE \E result \in {"element", "empty", "error"} :
              LET t == Did([task EXCEPT !.authObserved = result], "observe:auth") IN
                task' = IF result \in {"element", "error"}
                        THEN Did([t EXCEPT !.loggedIn = "yes", !.pc = "newDocument"],
                                 "observe:newDocument")
                        ELSE OnNotLoggedIn(t)
    /\ UNCHANGED notTaskVars

\* step 3: a signed-out path is logged out without probing; else observe:
\* an element is logged in, an empty result or an error is logged out
checkGrammarlyAuthStatus ==
    /\ task.pc = "auth"
    /\ IF SignedOutPath(task.url)
       THEN task' = OnNotLoggedIn(task)
       ELSE \E result \in {"element", "empty", "error"} :
              LET t == Did([task EXCEPT !.authObserved = result], "observe:auth") IN
                task' = IF result = "element"
                        THEN Did([t EXCEPT !.loggedIn = "yes", !.pc = "newDocument"],
                                 "observe:newDocument")
                        ELSE OnNotLoggedIn(t)
    /\ UNCHANGED notTaskVars

\* an action that takes any non-empty observation for a located element
ActOn_anyNonEmpty(result, what) ==
    IF result \in {"element", "undefined"} THEN "act:" \o what \o ":observed"
    ELSE "act:" \o what \o ":instruction"

\* steps 4 and 6: act on the observed element, else on the instruction string
ActOn(result, what) ==
    IF result = "element" THEN "act:" \o what \o ":observed"
    ELSE "act:" \o what \o ":instruction"

\* step 4: the observation for the new-document affordance settles
T_ObserveNewDocument ==
    /\ task.pc = "newDocument"
    /\ \E result \in ObserveResults :
         task' = Did([task EXCEPT !.observed = result, !.pc = "newDocumentAct"],
                     ActOn(result, "newDocument"))
    /\ UNCHANGED notTaskVars

\* steps 4-5: the action settles; cap the text and enter it by its path
T_TextInput ==
    /\ task.pc = "newDocumentAct"
    /\ LET text == truncate(task.text)
           via == InputPath(text)
       IN task' = Did([task EXCEPT !.input = [via |-> via, text |-> text], !.pc = "input"],
                      IF via = "type" THEN "act:type" ELSE "locator.fill")
    /\ UNCHANGED notTaskVars

\* steps 5-6: the input settles; observe for the AI-detection affordance
T_ObserveAiDetection ==
    /\ task.pc = "input"
    /\ task' = Did([task EXCEPT !.pc = "aiDetection"], "observe:aiDetection")
    /\ UNCHANGED notTaskVars

\* step 6: the observation settles and the affordance is opened
T_ActAiDetection ==
    /\ task.pc = "aiDetection"
    /\ \E result \in ObserveResults :
         task' = Did([task EXCEPT !.observed = result, !.pc = "aiDetectionAct"],
                     ActOn(result, "aiDetection"))
    /\ UNCHANGED notTaskVars

\* steps 6-7: the action settles; request the structured extraction
T_Extract ==
    /\ task.pc = "aiDetectionAct"
    /\ task' = Did([task EXCEPT !.pc = "extract"], "extract")
    /\ UNCHANGED notTaskVars

\* step 7: the extraction succeeds, or fails and the fallback is requested
T_AwaitExtract ==
    /\ task.pc = "extract"
    /\ \/ \E scores \in ExtractedScores :
            task' = TaskReturns([task EXCEPT !.primary = "ok"], scores)
       \/ task' = Did([task EXCEPT !.primary = "Primary extraction failed",
                                   !.pc = "fallback"], "extract:fallback")
    /\ UNCHANGED notTaskVars

\* a failed fallback that raises its own error
OnFallbackFailure_throwsFallback(t) ==
    TaskThrows([t EXCEPT !.fallback = "Fallback also failed"],
               [name |-> "Error", message |-> "Fallback also failed"])

\* step 7: when the fallback fails too, the original error is raised again
OnFallbackFailure(t) ==
    TaskThrows([t EXCEPT !.fallback = "Fallback also failed"],
               [name |-> "Error", message |-> t.primary])

\* step 7: the fallback extraction settles; success is annotated in notes
T_AwaitFallbackExtract ==
    /\ task.pc = "fallback"
    /\ \/ \E scores \in ExtractedScores :
            task' = TaskReturns([task EXCEPT !.fallback = "ok"],
                                [scores EXCEPT !.notes = Append(@, PartialExtractionNote)])
       \/ task' = OnFallbackFailure(task)
    /\ UNCHANGED notTaskVars

InitTask ==
    /\ task = NewTask
    /\ run = [r \in RunIds |-> OffRun]
    /\ buOpen = {}
    /\ buCreated = 0
    /\ tm = IdleTm
    /\ NoManager
    /\ provider = NoProvider
    /\ cfg = IdleCfg

NextTask ==
    \/ runStagehandGrammarlyTask
    \/ T_Navigate
    \/ checkGrammarlyAuthStatus
    \/ T_ObserveNewDocument
    \/ T_TextInput
    \/ T_ObserveAiDetection
    \/ T_ActAiDetection
    \/ T_Extract
    \/ T_AwaitExtract
    \/ T_AwaitFallbackExtract

SpecTask == InitTask /\ [][NextTask]_vars

\* ------------------------------------------------------- specification
\* one optimization run
Init ==
    /\ run = [r \in RunIds |-> IF r = 1 THEN IdleRun ELSE OffRun]
    /\ buOpen = {}
    /\ buCreated = 0
    /\ tm = IdleTm
    /\ NoManager
    /\ provider = NoProvider
    /\ task = IdleTask
    /\ cfg = IdleCfg

\* the steps of a run after its start: one per await
RunAwaits(r) ==
    \/ ProgressCreating(r)
    \/ createGrammarlySession(r)
    \/ ProgressInitialScoring(r)
    \/ ScoreBaseline(r)
    \/ ProgressScoringComplete(r)
    \/ ProgressAnalyzing(r)
    \/ analyzeTextWithClaude(r)
    \/ ProgressAnalysisComplete(r)
    \/ ProgressLoopStart(r)
    \/ ProgressRewriting(r)
    \/ rewriteTextWithClaude(r)
    \/ ProgressRescoring(r)
    \/ ReScore(r)
    \/ ProgressSummary(r)
    \/ summarizeOptimizationWithClaude(r)
    \/ ProgressComplete(r)
    \/ Finally(r)

RunStep(r) ==
    \/ Start(r)
    \/ RunAwaits(r)

Next == \E r \in RunIds : RunStep(r)

Spec == Init /\ [][Next]_vars

\* ------------------------------- progress values over the whole budget
\* grammarlyOptimizer.ts line 40: max_iterations is an integer in 1..20
MaxIterationsLimit == 20

\* a run whose calls all succeed and whose scores either meet the defaults or
\* do not; its progress values depend on the mode, the budget and the
\* iteration at which the thresholds are met, and on nothing else
PlainRun(s) ==
    /\ s.completion.kind # "throw" /\ s.outcome.kind # "rejected"
    /\ s.currentText = s.text /\ s.analysis \in {"none", "analysis-1"}
    /\ ~s.closeFailed
    /\ \A i \in DOMAIN s.history :
         <<s.history[i].ai_detection_percent, s.history[i].plagiarism_percent>>
           \in {<<8, 3>>, <<15, 7>>}

\* the call with every budget the input schema admits, a sink passed
InitProgress ==
    /\ \E mode \in Modes, max_iterations \in 1..MaxIterationsLimit :
         run = [r \in RunIds |->
                  IF r = 1
                  THEN [IdleRun EXCEPT !.pc = "p5", !.mode = mode, !.hasSink = TRUE,
                                       !.max_iterations = max_iterations]
                  ELSE OffRun]
    /\ buOpen = {}
    /\ buCreated = 0
    /\ tm = IdleTm
    /\ NoManager
    /\ provider = NoProvider
    /\ task = IdleTask
    /\ cfg = IdleCfg

NextProgress == \E r \in RunIds : RunAwaits(r) /\ PlainRun(run'[r])

SpecProgress == InitProgress /\ [][NextProgress]_vars

\* ------------------------------------ runs started by the tool handler
\* part_003 lines 53-106: the handler parses the arguments, builds its sink
\* from `extra` and calls runGrammarlyOptimization with it
ToolHandler(r) ==
    /\ run[r].pc = "idle"
    /\ \E text \in Texts, mode \in Modes, max_iterations \in 1..MaxIterationsBound,
          carrier \in ProgressTokenCarriers :
         run' = [run EXCEPT ![r] =
                   [IdleRun EXCEPT !.pc = "p5", !.text = text, !.mode = mode,
                                   !.max_iterations = max_iterations,
                                   !.hasSink = TRUE, !.carrier = carrier,
                                   !.currentText = text]]
    /\ UNCHANGED <<buOpen, buCreated, notOptimizerVars>>

\* a run whose rewrites return their input and whose scores either meet the
\* defaults or do not; its calls may fail at any await
HandlerRun(s) ==
    /\ s.currentText = s.text /\ s.text = "text-a"
    /\ s.analysis \in {"none", "analysis-1"}
    /\ \A i \in DOMAIN s.history :
         <<s.history[i].ai_detection_percent, s.history[i].plagiarism_percent>>
           \in {<<8, 3>>, <<15, 7>>}

NextHandler == \E r \in RunIds : (ToolHandler(r) \/ RunAwaits(r)) /\ HandlerRun(run'[r])

SpecHandler == Init /\ [][NextHandler]_vars

\* ------------------------------------------- two runs in one process
\* the text each of the two concurrent callers passes
TextOf(r) == IF r = 1 THEN "text-a" ELSE "text-b"

\* a run of the two-caller setting: its own text, no progress sink, a budget
\* of one iteration, and scores that either meet the defaults or do not; its
\* calls may fail at any await
ShortRun(r, s) ==
    /\ s.text = TextOf(r) /\ ~s.hasSink /\ s.max_iterations = 1
    /\ s.analysis \in {"none", "analysis-1"}
    /\ \A i \in DOMAIN s.calls :
         (s.calls[i].op = "scoreTask" /\ s.calls[i].output.ok) =>
           <<s.calls[i].output.scores.aiDetectionPercent,
             s.calls[i].output.scores.plagiarismPercent>> \in {<<8, 3>>, <<15, 7>>}

\* two callers, neither has called yet
InitConcurrent ==
    /\ run = [r \in RunIds |-> IdleRun]
    /\ buOpen = {}
    /\ buCreated = 0
    /\ tm = IdleTm
    /\ NoManager
    /\ provider = NoProvider
    /\ task = IdleTask
    /\ cfg = IdleCfg

NextConcurrent == \E r \in RunIds : RunStep(r) /\ ShortRun(r, run'[r])

SpecConcurrent == InitConcurrent /\ [][NextConcurrent]_vars

\* ------------------------------------ thresholdsMet as a pure function
\* the arguments of one call: one score and its maximum range over every
\* value of the schema while the other pair ranges over the samples
ThresholdArguments ==
    {[aiDetectionPercent |-> a, plagiarismPercent |-> p,
      maxAiPercent |-> ma, maxPlagiarismPercent |-> DefaultMaxPlagiarismPercent,
      evaluated |-> FALSE, result |-> FALSE] :
        a \in NullablePercent, ma \in Percent, p \in PlagiarismSamples}
    \cup
    {[aiDetectionPercent |-> a, plagiarismPercent |-> p,
      maxAiPercent |-> DefaultMaxAiPercent, maxPlagiarismPercent |-> mp,
      evaluated |-> FALSE, result |-> FALSE] :
        a \in AiSamples, p \in NullablePercent, mp \in Percent}

InitThresholds ==
    /\ run = [r \in RunIds |-> OffRun]
    /\ buOpen = {}
    /\ buCreated = 0
    /\ tm \in ThresholdArguments
    /\ NoManager
    /\ provider = NoProvider
    /\ task = IdleTask
    /\ cfg = IdleCfg

EvalThresholds ==
    /\ ~tm.evaluated
    /\ tm' = [tm EXCEPT !.evaluated = TRUE,
                        !.result = thresholdsMet(
                            [aiDetectionPercent |-> tm.aiDetectionPercent,
                             plagiarismPercent |-> tm.plagiarismPercent],
                            tm.maxAiPercent, tm.maxPlagiarismPercent)]
    /\ UNCHANGED <<run, buOpen, buCreated, managerVars, provider, task, cfg>>

NextThresholds == EvalThresholds

SpecThresholds == InitThresholds /\ [][NextThresholds]_vars

\* ------------------------------------------------------------- claims
CountCalls(s, op) == Cardinality({i \in DOMAIN s.calls : s.calls[i].op = op})
CallsWith(s, op, arg) ==
    Cardinality({i \in DOMAIN s.calls : s.calls[i].op = op /\ s.calls[i].arg = arg})
Settled(s) == s.pc = "done"
Fulfilled(s) == s.pc = "done" /\ s.outcome.kind = "fulfilled"
\* the threshold policy as the specification words it
PolicyMet(ai, plagiarism, maxAi, maxPlagiarism) ==
    /\ ~(ai = Null /\ plagiarism = Null)
    /\ (ai # Null => ai <= maxAi)
    /\ (plagiarism # Null => plagiarism <= maxPlagiarism)
EntryMet(e, s) ==
    PolicyMet(e.ai_detection_percent, e.plagiarism_percent,
              s.max_ai_percent, s.max_plagiarism_percent)
MinOf(S) == CHOOSE x \in S : \A y \in S : x <= y

\* C1: a run whose session creation returned an id has called deleteSession for
\* that id exactly once when it settles, whatever the exit path, and never
\* calls deleteSession for another id or a second time
C1_SessionClosedExactlyOnce ==
    \A r \in RunIds :
      LET s == run[r] IN
        /\ CountCalls(s, "deleteSession") = CallsWith(s, "deleteSession", s.sessionId)
        /\ CountCalls(s, "deleteSession") <= 1
        /\ (Settled(s) /\ s.sessionId # NoSession) => CallsWith(s, "deleteSession", s.sessionId) = 1
        /\ s.sessionId = NoSession => CountCalls(s, "deleteSession") = 0

\* a run rejected by a scoring-task timeout has closed its session
C1_Witness ==
    \E r \in RunIds :
      /\ Settled(run[r])
      /\ run[r].outcome.kind = "rejected"
      /\ run[r].outcome.error = "score: task timed out"
      /\ run[r].sessionId # NoSession
      /\ CallsWith(run[r], "deleteSession", run[r].sessionId) = 1

\* C2: when deleteSession fails in the finally block the caller still receives
\* the completion of the try block: the computed result unchanged, or the
\* error that was in flight
C2_CloseFailureNotPropagated ==
    \A r \in RunIds :
      LET s == run[r] IN
        (Settled(s) /\ s.closeFailed) =>
          /\ s.completion.kind = "return" =>
               /\ s.outcome = [kind |-> "fulfilled", value |-> s.completion.value]
               /\ s.outcome.value.final_text = s.currentText
               /\ s.outcome.value.history = s.history
          /\ s.completion.kind = "throw" =>
               s.outcome = [kind |-> "rejected", error |-> s.completion.error]
          /\ s.completion.kind \in {"return", "throw"}

\* a computed result reaches the caller although the close failed
C2_Witness ==
    \E r \in RunIds :
      /\ Settled(run[r]) /\ run[r].closeFailed
      /\ run[r].outcome.kind = "fulfilled"
      /\ run[r].mode = "optimize"

\* C3: thresholdsMet is false when both scores are null, and otherwise true
\* iff every non-null score is at most its maximum
C3_ThresholdPolicy ==
    tm.evaluated =>
      tm.result = PolicyMet(tm.aiDetectionPercent, tm.plagiarismPercent,
                            tm.maxAiPercent, tm.maxPlagiarismPercent)

\* {ai: 5, plagiarism: null} with maxAi = 10 is met
C3_Witness ==
    /\ tm.evaluated
    /\ tm.aiDetectionPercent = 5 /\ tm.plagiarismPercent = Null /\ tm.maxAiPercent = 10
    /\ tm.result = TRUE

\* C4: in optimize mode at most max_iterations rewrites happen, no rewrite or
\* scoring call follows the first iteration whose re-score meets the
\* thresholds, and a successful run reports as iterations_used the smallest
\* such iteration, or max_iterations when there is none
C4_LoopStopsAtFirstMet ==
    \A r \in RunIds :
      LET s == run[r]
          h == s.history
          metIterations == {i \in 1..(Len(h) - 1) : EntryMet(h[i + 1], s)}
      IN s.mode = "optimize" /\ s.pc # "off" =>
           /\ CountCalls(s, "rewrite") <= s.max_iterations
           /\ \A i \in metIterations :
                /\ Len(h) = i + 1
                /\ CountCalls(s, "rewrite") = i
                /\ CountCalls(s, "scoreTask") = i + 1
           /\ Fulfilled(s) =>
                /\ s.outcome.value.iterations_used =
                     IF metIterations # {} THEN MinOf(metIterations) ELSE s.max_iterations
                /\ s.outcome.value.iterations_used \in 1..s.max_iterations
                /\ CountCalls(s, "rewrite") = s.outcome.value.iterations_used

\* a run that stops at iteration 1 although two iterations were allowed
C4_Witness ==
    \E r \in RunIds :
      /\ Fulfilled(run[r]) /\ run[r].mode = "optimize"
      /\ run[r].max_iterations = 2
      /\ run[r].outcome.value.iterations_used = 1
      /\ CountCalls(run[r], "rewrite") = 1

\* C5: a successful run returns a history whose entries carry the iteration
\* indices 0..iterations_used in order, and the scores of its last entry
C5_HistoryShape ==
    \A r \in RunIds :
      LET s == run[r] IN
        Fulfilled(s) =>
          LET v == s.outcome.value
              h == v.history
          IN /\ Len(h) = v.iterations_used + 1
             /\ \A k \in 1..Len(h) : h[k].iteration = k - 1
             /\ v.ai_detection_percent = h[Len(h)].ai_detection_percent
             /\ v.plagiarism_percent = h[Len(h)].plagiarism_percent
             /\ (s.mode = "optimize" /\ Len(h) >= 2 /\ ~EntryMet(h[1], s) /\ EntryMet(h[2], s)) =>
                  (v.iterations_used = 1 /\ v.thresholds_met /\ Len(h) = 2)

\* baseline AI 15 above the target 10, iteration 1 brings it to 8
C5_Witness ==
    \E r \in RunIds :
      /\ Fulfilled(run[r]) /\ run[r].mode = "optimize"
      /\ run[r].max_ai_percent = 10
      /\ Len(run[r].outcome.value.history) = 2
      /\ run[r].outcome.value.history[1].ai_detection_percent = 15
      /\ run[r].outcome.value.history[2].ai_detection_percent = 8
      /\ run[r].outcome.value.iterations_used = 1
      /\ run[r].outcome.value.thresholds_met

\* C6: score_only and analyze never rewrite, never summarize and never change
\* the text; their result has final_text = input, iterations_used = 0 and the
\* baseline entry only; analyze calls the analysis once and returns its output
\* as notes, score_only calls no model step
C6_ReadOnlyModes ==
    \A r \in RunIds :
      LET s == run[r] IN
        (s.mode \in {"score_only", "analyze"} /\ s.pc # "off") =>
          /\ CountCalls(s, "rewrite") = 0
          /\ CountCalls(s, "summarize") = 0
          /\ s.currentText = s.text
          /\ s.mode = "score_only" => CountCalls(s, "analyze") = 0
          /\ CountCalls(s, "analyze") <= 1
          /\ Fulfilled(s) =>
               /\ s.outcome.value.final_text = s.text
               /\ s.outcome.value.iterations_used = 0
               /\ Len(s.outcome.value.history) = 1
               /\ s.outcome.value.history[1].iteration = 0
               /\ s.mode = "analyze" =>
                    /\ CountCalls(s, "analyze") = 1
                    /\ s.outcome.value.notes = s.analysis
                    /\ s.analysis \in AnalysisOutputs

\* an analyze run returns the analysis as notes
C6_Witness ==
    \E r \in RunIds :
      /\ Fulfilled(run[r]) /\ run[r].mode = "analyze"
      /\ run[r].outcome.value.notes = "analysis-2"
      /\ run[r].text = "text-b"

\* caller c takes the step that resumes its call after the await at `site`
Resumes(c, site) == call[c].pc = site /\ call'[c] # call[c]

\* C7: when the probe of a getOrCreateSession call without forceNew reports
\* RUNNING, the call returns the cached session and context ids, issues no
\* create-session and no create-context call, and leaves both cached ids as
\* they were
C7_ReuseRunningSession ==
    [][\A c \in Callers :
         (Resumes(c, "probe") /\ ~call[c].options.forceNew /\ call'[c].probe = "RUNNING") =>
           /\ call'[c].pc = "done"
           /\ call'[c].outcome = [kind |-> "fulfilled",
                                  value |-> [sessionId |-> cachedSessionId,
                                             contextId |-> cachedContextId]]
           /\ call'[c].creates = 0 /\ call'[c].contextCreates = 0
           /\ UNCHANGED <<cachedSessionId, cachedContextId, bbSessionsCreated,
                          bbContextsCreated>>]_vars

\* the configured session is running and is handed back with its context
C7_Witness ==
    \E c \in Callers :
      /\ call[c].op = "getOrCreateSession" /\ call[c].pc = "done"
      /\ call[c].probe = "RUNNING" /\ call[c].via = "reuse"
      /\ call[c].outcome.value = [sessionId |-> ConfigSessionId, contextId |-> ConfigContextId]
      /\ cachedSessionId = ConfigSessionId
      /\ bbSessionsCreated = 0 /\ bbContextsCreated = 0

C9_StaleCloseKeepsCache ==
    [][\A c \in Callers :
         Resumes(c, "update") =>
           /\ cachedContextId' = cachedContextId
           /\ call[c].arg # cachedSessionId => cachedSessionId' = cachedSessionId]_vars

\* a released stale id next to a cached session and a cached context
C9_Witness ==
    \E c \in Callers :
      /\ call[c].op = "closeSession" /\ call[c].pc = "done"
      /\ call[c].released = "ok"
      /\ cachedSessionId # NoBbSession /\ call[c].arg # cachedSessionId
      /\ cachedContextId # NoContext

\* C10: closeSession completes normally for every id and every outcome of the
\* release request
C10_CloseNeverThrows ==
    \A c \in Callers :
      (call[c].op = "closeSession" /\ call[c].pc = "done") =>
        call[c].outcome.kind = "fulfilled"

\* the release of an id that is not cached failed and the call returned
C10_Witness ==
    \E c \in Callers :
      /\ call[c].op = "closeSession" /\ call[c].pc = "done"
      /\ call[c].released = "failed"
      /\ call[c].arg # cachedSessionId
      /\ call[c].outcome.kind = "fulfilled"

\* contexts the session manager has auto-created so far
AutoCreatedContexts == {BrowserbaseContextIds[i] : i \in 1..bbContextsCreated}
\* the sessions created so far that persist to context ctx, by creation index
SessionsOf(ctx) ==
    {j \in 1..bbSessionsCreated : bbSessionContext[BrowserbaseSessionIds[j]] = ctx}
\* id is the first session created with context ctx
IsFirstSessionOf(id, ctx) ==
    /\ SessionsOf(ctx) # {}
    /\ BrowserbaseSessionIds[MinOf(SessionsOf(ctx))] = id
\* caller c holds the SessionInfo its getOrCreateSession call created
ReturnedCreated(c) ==
    call[c].op = "getOrCreateSession" /\ call[c].pc = "done" /\ call[c].via = "create"

\* C11: the SessionInfo returned for the first session that uses an
\* auto-created context carries needsLogin = true, also when the session is
\* created by a later call than the one that created the context
C11_AutoContextNeedsLogin ==
    \A c \in Callers :
      ReturnedCreated(c) =>
        LET v == call[c].outcome.value IN
          (v.contextId \in AutoCreatedContexts /\ IsFirstSessionOf(v.sessionId, v.contextId)) =>
            v.needsLogin = TRUE

\* C12: on the create path the context is the explicit option, else the
\* cached context, else a newly created one; create-context is called only
\* when neither exists, and needsLogin is true iff this call created the context
C12_ContextResolution ==
    \A c \in Callers :
      LET k == call[c] IN
        k.op = "getOrCreateSession" =>
          /\ k.contextCreates <= 1
          /\ k.pc = "context" =>
               (k.options.contextId = NoContext /\ cachedContextId = NoContext)
          /\ k.contextCreates = 1 =>
               (k.options.contextId = NoContext /\ k.contextId \in AutoCreatedContexts \cup {NoContext})
          /\ (k.pc \in {"create", "debug"} \/ ReturnedCreated(c)) =>
               /\ k.needsLogin = (k.contextCreates = 1)
               /\ k.contextId # NoContext
               /\ k.options.contextId # NoContext => k.contextId = k.options.contextId
               /\ (k.options.contextId = NoContext /\ k.contextCreates = 0) =>
                    k.contextId = cachedContextId
               /\ k.contextCreates = 1 => k.contextId \in AutoCreatedContexts
          /\ ReturnedCreated(c) =>
               /\ k.outcome.value.needsLogin = (k.contextCreates = 1)
               /\ k.outcome.value.contextId = k.contextId

\* an explicit context wins over a cached auto-created one, without login flag
C12_Witness ==
    \E c \in Callers :
      /\ ReturnedCreated(c)
      /\ call[c].options.contextId = ConfigContextId
      /\ cachedContextId = ConfigContextId
      /\ bbContextsCreated = 1
      /\ call[c].outcome.value.contextId = ConfigContextId
      /\ call[c].outcome.value.needsLogin = FALSE
      /\ call[c].contextCreates = 0

\* the configuration under evaluation is an external proxy
ExternalConfig(proxy) == proxy # NullProxyConfig /\ proxy.type = "external"

\* C14 as stated: an external configuration with a server is accepted by
\* ProxyConfigSchema whether or not it has a username and a password
C14_SchemaAcceptsWithoutCredentials ==
    (cfg.stage # "off" /\ cfg.parsed /\ cfg.value.type = "external"
       /\ cfg.value.server = ValidServer) => cfg.accepted

\* C14, amended: ProxyConfigSchema accepts an external configuration iff it
\* has a server, a username and a password; past the schema the credentials
\* are optional, an enabled external configuration with a server yields a
\* one-element external payload whose missing credentials are undefined
C14_CredentialsOptionalPastSchema ==
    cfg.stage # "off" =>
      /\ (cfg.parsed /\ cfg.value.type = "external") =>
           (cfg.accepted <=> /\ cfg.value.server = ValidServer
                             /\ cfg.value.username # Undefined
                             /\ TruthyPassword(cfg.value.password))
      /\ (cfg.isBuilt /\ ExternalConfig(cfg.proxyConfig)
            /\ cfg.proxyConfig.server # Undefined /\ cfg.proxyConfig.enabled # "false") =>
           /\ cfg.payload.threw = FALSE
           /\ Len(cfg.payload.proxies) = 1
           /\ cfg.payload.proxies[1].type = "external"
           /\ cfg.payload.proxies[1].server = cfg.proxyConfig.server
           /\ cfg.payload.proxies[1].username = cfg.proxyConfig.username
           /\ cfg.payload.proxies[1].password = cfg.options.proxyPassword
           /\ ~TruthyPassword(cfg.proxyConfig.password) =>
                cfg.payload.proxies[1].password = NoPassword

\* {type: external, server} given as a typed configuration becomes a payload
\* with both credentials undefined
C14_Witness ==
    /\ cfg.stage = "options" /\ cfg.isBuilt /\ ~cfg.parsed
    /\ ExternalConfig(cfg.proxyConfig)
    /\ cfg.proxyConfig.server = ValidServer
    /\ cfg.proxyConfig.username = Undefined /\ cfg.proxyConfig.password = NoPassword
    /\ cfg.payload.proxies = <<[type |-> "external", server |-> ValidServer,
                                username |-> Undefined, password |-> NoPassword]>>

\* the password contains one of the IPRoyal parameter markers
HasIproyalParams(password) ==
    \/ includes(password, <<"_", "country-">>)
    \/ includes(password, <<"_", "session-">>)
    \/ includes(password, <<"_", "lifetime-">>)

\* C20: a password that already contains _country-, _session- or _lifetime-
\* is returned unchanged, and building the password again from a built
\* password gives the built password, for every base password and options
C20_PasswordBuildIdempotent ==
    (cfg.stage = "options" /\ cfg.proxyConfig # NullProxyConfig) =>
      /\ (TruthyPassword(cfg.proxyConfig.password) /\ HasIproyalParams(cfg.proxyConfig.password)) =>
           cfg.options.proxyPassword = cfg.proxyConfig.password
      /\ cfg.isRebuilt => cfg.rebuilt = cfg.options.proxyPassword

\* "p" with country US and a sticky session is built once and then kept
C20_Witness ==
    /\ cfg.stage = "options" /\ cfg.isRebuilt
    /\ cfg.proxyConfig # NullProxyConfig
    /\ cfg.proxyConfig.password = <<"p">>
    /\ cfg.options.proxyPassword = <<"p", "_", "country-", "us", "_", "session-", "abc12345">>
    /\ cfg.rebuilt = cfg.options.proxyPassword

\* C13: a createSession whose proxy configuration is external without a
\* server issues no create-session call, and unless a running session is
\* reused it fails with the configuration-missing error
C13_ExternalWithoutServerFails ==
    (provider.pc # "off" /\ provider.op = "createSession"
       /\ ExternalConfig(provider.proxyConfig) /\ provider.proxyConfig.server = Undefined) =>
      LET k == call[ProviderCaller] IN
        k.op = "getOrCreateSession" =>
          /\ k.pc \notin {"create", "debug"}
          /\ k.creates = 0
          /\ (k.pc = "done" /\ k.via # "reuse") =>
               k.outcome = [kind |-> "rejected",
                            error |-> "proxyType='external' requires proxyServer"]

\* C15: scoreText for a session id without a handle in stagehandInstances
\* settles at once with the explicit error, having run no task and made no
\* call to the session manager or the backend
C15_UnknownSessionFailsFast ==
    [][(/\ provider.pc \in {"idle", "done"}
        /\ provider' # provider
        /\ provider'.op = "scoreText"
        /\ provider'.arg \notin provider.stagehandInstances) =>
          /\ provider'.pc = "done"
          /\ provider'.outcome = [kind |-> "rejected",
                                  error |-> "No Stagehand instance found for session"]
          /\ provider'.log = <<>>
          /\ provider'.stagehandInstances = provider.stagehandInstances
          /\ provider'.sessionDebugUrls = provider.sessionDebugUrls
          /\ UNCHANGED managerVars]_vars

\* a session this provider's manager created and released is scored: error
C15_Witness ==
    /\ provider.pc = "done" /\ provider.op = "scoreText"
    /\ provider.arg = BrowserbaseSessionIds[1]
    /\ bbStatus[provider.arg] = "COMPLETED"
    /\ provider.arg \notin provider.stagehandInstances
    /\ provider.outcome.kind = "rejected"
    /\ provider.outcome.error = "No Stagehand instance found for session"
    /\ provider.log = <<>>

\* C16: when the handle's initialization fails, createSession asks the session
\* manager to release the session it obtained, throws the initialization
\* error only after that call settled, and leaves both maps as they were
C16_InitFailureReleasesSession ==
    (provider.pc # "off" /\ provider.op = "createSession" /\ provider.initFailed) =>
      LET k == call[ProviderCaller] IN
        /\ k.op = "closeSession" /\ k.arg = provider.sessionInfo.sessionId
        /\ provider.log[Len(provider.log)] =
             [op |-> "sessionManager.closeSession", arg |-> provider.sessionInfo.sessionId]
        /\ provider.pc # "done" => (provider.pc = "closeAfterInit"
                                     /\ provider.outcome.kind = "pending")
        /\ provider.pc = "done" =>
             /\ k.pc = "done" /\ k.released \in {"ok", "failed"}
             /\ provider.outcome = [kind |-> "rejected", error |-> "Init failed"]
        /\ provider.stagehandInstances = provider.entry.stagehandInstances
        /\ provider.sessionDebugUrls = provider.entry.sessionDebugUrls

\* the new session of a failed start is released and has no handle
C16_Witness ==
    /\ provider.pc = "done" /\ provider.op = "createSession" /\ provider.initFailed
    /\ provider.outcome = [kind |-> "rejected", error |-> "Init failed"]
    /\ provider.sessionInfo.sessionId = BrowserbaseSessionIds[1]
    /\ call[ProviderCaller].released = "ok"
    /\ bbStatus[BrowserbaseSessionIds[1]] = "COMPLETED"
    /\ BrowserbaseSessionIds[1] \notin provider.stagehandInstances
    /\ provider.sessionDebugUrls[BrowserbaseSessionIds[1]] = Undefined

\* how often the task has issued the call `what`
TaskCalls(what) == Cardinality({i \in DOMAIN task.log : task.log[i] = what})

C18_OneFallbackOriginalError ==
    task.pc # "off" =>
      /\ TaskCalls("extract") <= 1
      /\ TaskCalls("extract:fallback") <= 1
      /\ TaskCalls("extract:fallback") = 1 <=>
           (task.primary = "Primary extraction failed" /\ TaskCalls("extract") = 1)
      /\ (task.primary = "Primary extraction failed" /\ task.pc # "done") =>
           task.pc = "fallback"
      /\ (task.pc = "done" /\ task.fallback = "Fallback also failed") =>
           task.outcome = [kind |-> "rejected",
                           error |-> [name |-> "Error",
                                      message |-> "Primary extraction failed"]]
      /\ (task.pc = "done" /\ task.fallback = "ok") =>
           /\ task.outcome.kind = "fulfilled"
           /\ \E scores \in ExtractedScores :
                /\ task.outcome.value.aiDetectionPercent = scores.aiDetectionPercent
                /\ task.outcome.value.plagiarismPercent = scores.plagiarismPercent
                /\ task.outcome.value.notes = Append(scores.notes, PartialExtractionNote)

\* both extractions failed and the caller sees the first error
C18_Witness ==
    /\ task.pc = "done"
    /\ task.primary = "Primary extraction failed"
    /\ task.fallback = "Fallback also failed"
    /\ TaskCalls("extract") + TaskCalls("extract:fallback") = 2
    /\ task.outcome.error.message = "Primary extraction failed"

IproyalParameter(key, value) == IF Truthy(value) THEN <<"_", key, value>> ELSE <<>>

\* C21: buildIproyalPassword returns the base password followed by the
\* country (lower-cased), session and lifetime parameters of the options that
\* are set, in that order, and the base password alone when none is set
C21_IproyalPasswordFormat ==
    cfg.stage = "iproyal" =>
      /\ cfg.iproyal = cfg.value.password
                         \o IproyalParameter("country-", toLowerCase(cfg.iproyalOptions.country))
                         \o IproyalParameter("session-", cfg.iproyalOptions.sessionId)
                         \o IproyalParameter("lifetime-", cfg.iproyalOptions.sessionLifetime)
      /\ (\A f \in DOMAIN cfg.iproyalOptions : cfg.iproyalOptions[f] = Undefined)
            => cfg.iproyal = cfg.value.password
      /\ (cfg.value.password = <<"p">> /\ cfg.iproyalOptions.country = "US"
            /\ cfg.iproyalOptions.sessionId = Undefined
            /\ cfg.iproyalOptions.sessionLifetime = Undefined)
            => cfg.iproyal = <<"p", "_", "country-", "us">>

\* all three options set, the country in upper case
C21_Witness ==
    /\ cfg.stage = "iproyal"
    /\ cfg.value.password = <<"p">>
    /\ cfg.iproyalOptions = [country |-> "US", sessionId |-> "abc12345",
                             sessionLifetime |-> "30m"]
    /\ cfg.iproyal = <<"p", "_", "country-", "us", "_", "session-", "abc12345",
                       "_", "lifetime-", "30m">>

\* the call of c returned a session it created itself
CreatedOwn(c) ==
    /\ call[c].op = "getOrCreateSession" /\ call[c].pc = "done"
    /\ call[c].outcome.kind = "fulfilled" /\ call[c].via = "create"
\* the call of c found no cached id, or a cached id that was not alive
FoundNoLiveSession(c) ==
    /\ call[c].op = "getOrCreateSession" /\ ~call[c].options.forceNew
    /\ call[c].probeId = NoBbSession \/ call[c].probe \notin {"none", "RUNNING"}

\* C22: a call that found no live cached session creates its own session
\* whatever the other call does meanwhile; when both calls have created, two
\* remote sessions exist, the two returned ids differ and the cache holds
\* exactly one of them, the one created last
C22_ConcurrentCallsBothCreate ==
    /\ \A c \in Callers :
         /\ (FoundNoLiveSession(c) /\ call[c].pc = "done"
               /\ call[c].outcome.kind = "fulfilled") => CreatedOwn(c)
         /\ CreatedOwn(c) =>
              /\ call[c].creates = 1
              /\ call[c].outcome.value.sessionId = call[c].sessionId
              /\ \E i \in 1..bbSessionsCreated : call[c].sessionId = BrowserbaseSessionIds[i]
    /\ (CreatedOwn(1) /\ CreatedOwn(2)) =>
         /\ bbSessionsCreated = 2
         /\ call[1].sessionId # call[2].sessionId
         /\ cachedSessionId \in {call[1].sessionId, call[2].sessionId}
         /\ cachedSessionId = BrowserbaseSessionIds[2]

\* both calls began while the cache was empty, so they overlapped; both
\* sessions are running remotely and the first one is no longer cached
C22_Witness ==
    /\ CreatedOwn(1) /\ CreatedOwn(2)
    /\ \A c \in Callers : FoundNoLiveSession(c) /\ call[c].probeId = NoBbSession
    /\ bbSessionsCreated = 2
    /\ \A i \in 1..2 : bbStatus[BrowserbaseSessionIds[i]] = "RUNNING"
    /\ cachedSessionId = BrowserbaseSessionIds[2]
    /\ cachedSessionId # BrowserbaseSessionIds[1]

\* C23: the liveness probe answers true exactly for a RUNNING status and
\* false for any other status and for a retrieval error, and never throws: a
\* call whose probe was not RUNNING goes on to resolve a context and create a
\* session, never returns the probed id and never fails with the probe's error
C23_ProbeFailsClosed ==
    /\ [][\A c \in Callers :
           Resumes(c, "probe") =>
             /\ call'[c].via = "reuse" <=> call'[c].probe = "RUNNING"
             /\ call'[c].probe # "RUNNING" =>
                  /\ call'[c].outcome.kind # "fulfilled"
                  /\ cachedSessionId' = cachedSessionId
                  /\ IF buildProxyConfig(call[c].options.proxy).threw
                        /\ (call[c].options.contextId # NoContext \/ cachedContextId # NoContext)
                     THEN call'[c].outcome =
                            [kind |-> "rejected",
                             error |-> "proxyType='external' requires proxyServer"]
                     ELSE call'[c].pc \in {"context", "create"}]_vars
    /\ [](\A c \in Callers :
           (/\ call[c].op = "getOrCreateSession" /\ call[c].pc = "done"
            /\ call[c].probeId # NoBbSession /\ call[c].probe # "RUNNING") =>
             IF call[c].outcome.kind = "fulfilled"
             THEN /\ call[c].via = "create" /\ call[c].creates = 1
                  /\ call[c].outcome.value.sessionId # call[c].probeId
             ELSE call[c].outcome.error \in {"proxyType='external' requires proxyServer",
                                             "contexts.create failed",
                                             "sessions.create failed"})

\* the probe of the configured session failed and a new session is returned
C23_Witness ==
    \E c \in Callers :
      /\ call[c].op = "getOrCreateSession" /\ call[c].pc = "done"
      /\ call[c].probeId = ConfigSessionId /\ call[c].probe = "error"
      /\ call[c].outcome.kind = "fulfilled" /\ call[c].via = "create"
      /\ call[c].outcome.value.sessionId = BrowserbaseSessionIds[1]
      /\ cachedSessionId = BrowserbaseSessionIds[1]

\* how often the provider's current call has made the call `what`
ProviderCalls(what) ==
    Cardinality({i \in DOMAIN provider.log : provider.log[i].op = what})

\* C24: once closeSession(id) is past the automation handle, id is in neither
\* map and the release of id has been requested from the session manager,
\* once; this holds with a handle whose close failed and without a handle,
\* and the call never throws
C24_ProviderCloseAlwaysCleansUp ==
    provider.pc # "off" /\ provider.op = "closeSession" =>
      /\ provider.pc \in {"stagehandClose", "managerClose", "done"}
      /\ provider.pc = "stagehandClose" =>
           /\ provider.arg \in provider.entry.stagehandInstances
           /\ ProviderCalls("sessionManager.closeSession") = 0
      /\ provider.pc \in {"managerClose", "done"} =>
           /\ provider.arg \notin provider.stagehandInstances
           /\ provider.sessionDebugUrls[provider.arg] = Undefined
           /\ ProviderCalls("sessionManager.closeSession") = 1
           /\ \E i \in DOMAIN provider.log :
                provider.log[i] = [op |-> "sessionManager.closeSession", arg |-> provider.arg]
           /\ call[ProviderCaller].op = "closeSession"
           /\ call[ProviderCaller].arg = provider.arg
           /\ ProviderCalls("stagehand.close") =
                (IF provider.arg \in provider.entry.stagehandInstances THEN 1 ELSE 0)
      /\ provider.pc = "done" =>
           provider.outcome = [kind |-> "fulfilled", value |-> Undefined]

\* the handle's close failed; the maps are cleared and the session released
C24_Witness ==
    /\ provider.pc = "done" /\ provider.op = "closeSession"
    /\ provider.arg \in provider.entry.stagehandInstances
    /\ provider.entry.sessionDebugUrls[provider.arg] # Undefined
    /\ ProviderCalls("warn") = 1
    /\ provider.arg \notin provider.stagehandInstances
    /\ provider.sessionDebugUrls[provider.arg] = Undefined
    /\ call[ProviderCaller].released = "ok"
    /\ provider.outcome.kind = "fulfilled"

\* the call at position i of run s is the first one, or follows a call of
\* kind op that succeeded
Follows(s, i, op) == i > 1 /\ s.calls[i - 1].op = op /\ s.calls[i - 1].output.ok

\* C25: the external calls of a run are made one after the other in the
\* order create session, baseline score, then (rewrite, score) pairs, then one
\* summary; a rewrite is passed the text and the scores of the scoring call
\* before it, a scoring call after a rewrite scores that rewrite's output, the
\* summary is passed every history entry and the final text, and a failed
\* call is followed by the session's deletion only
C25_CallOrderAndDataFlow ==
    \A r \in RunIds :
      LET s == run[r]
          n == Len(s.calls)
          Count(op) == CountCalls(s, op)
      IN s.pc # "off" =>
           /\ \A i \in 1..n :
                LET k == s.calls[i] IN
                  /\ (i = 1) <=> (k.op = "createSession")
                  /\ i = 2 /\ k.op # "deleteSession" =>
                       /\ k.op = "scoreTask" /\ k.input.text = s.text
                       /\ Follows(s, i, "createSession")
                  /\ k.op = "scoreTask" /\ i > 2 =>
                       /\ Follows(s, i, "rewrite")
                       /\ k.input.text = s.calls[i - 1].output.value.rewrittenText
                  /\ k.op = "rewrite" =>
                       /\ s.mode = "optimize"
                       /\ Follows(s, i, "scoreTask")
                       /\ k.input.originalText = s.calls[i - 1].input.text
                       /\ k.input.lastScores = s.calls[i - 1].output.scores
                       /\ i = 2 * Cardinality({j \in 1..i : s.calls[j].op = "rewrite"}) + 1
                  /\ k.op = "analyze" =>
                       s.mode = "analyze" /\ i = 3 /\ Follows(s, i, "scoreTask")
                  /\ k.op = "summarize" =>
                       /\ s.mode = "optimize" /\ i >= 5
                       /\ Follows(s, i, "scoreTask")
                       /\ Len(k.input.history) = Cardinality({j \in 1..i : s.calls[j].op = "scoreTask"})
                       /\ \A j \in 1..i :
                            s.calls[j].op = "scoreTask" =>
                              LET e == k.input.history[j \div 2] IN
                                /\ e.iteration = (j \div 2) - 1
                                /\ e.ai_detection_percent = s.calls[j].output.scores.aiDetectionPercent
                                /\ e.plagiarism_percent = s.calls[j].output.scores.plagiarismPercent
                       /\ k.input.finalText = s.calls[i - 1].input.text
                       /\ \/ Count("rewrite") = s.max_iterations
                          \/ thresholdsMet(s.calls[i - 1].output.scores, s.max_ai_percent,
                                           s.max_plagiarism_percent)
                  /\ k.op = "deleteSession" => i = n
                  /\ ~k.output.ok /\ i < n => (i + 1 = n /\ s.calls[n].op = "deleteSession")
           /\ Count("summarize") <= 1
           /\ Count("rewrite") <= s.max_iterations
           /\ Fulfilled(s) /\ s.mode = "optimize" => Count("summarize") = 1
           /\ s.mode # "optimize" => Count("summarize") = 0

\* two rewrites with different outputs, the cap exhausted, then the summary
C25_Witness ==
    \E r \in RunIds :
      LET s == run[r] IN
        /\ s.pc # "off" /\ Fulfilled(s) /\ s.mode = "optimize" /\ s.max_iterations = 2
        /\ ~s.outcome.value.thresholds_met
        /\ [i \in 1..7 |-> s.calls[i].op] =
             <<"createSession", "scoreTask", "rewrite", "scoreTask", "rewrite",
               "scoreTask", "summarize">>
        /\ s.calls[3].output.value.rewrittenText # s.calls[5].output.value.rewrittenText
        /\ s.calls[6].input.text = s.calls[5].output.value.rewrittenText
        /\ s.calls[6].output.scores # s.calls[4].output.scores
        /\ s.calls[7].input.finalText = s.calls[6].input.text
        /\ Len(s.calls[7].input.history) = 3

\* C26: a run creates at most one session, exactly one when it gets as far
\* as scoring; every scoring call, baseline and re-score, addresses the id
\* that create call returned; the session stays open until the run's single
\* delete call, which comes after the last scoring call
C26_OneSessionPerRun ==
    \A r \in RunIds :
      LET s == run[r]
          n == Len(s.calls)
      IN s.pc # "off" =>
           /\ CountCalls(s, "createSession") <= 1
           /\ CountCalls(s, "deleteSession") <= 1
           /\ \A i \in 1..n :
                /\ s.calls[i].op = "scoreTask" =>
                     /\ CountCalls(s, "createSession") = 1
                     /\ s.calls[1].op = "createSession" /\ s.calls[1].output.ok
                     /\ s.calls[i].arg = s.calls[1].output.value
                     /\ s.calls[i].arg = s.sessionId
                /\ s.calls[i].op = "deleteSession" =>
                     /\ i = n
                     /\ s.calls[i].arg = s.calls[1].output.value
           /\ (s.sessionId # NoSession /\ CountCalls(s, "deleteSession") = 0) =>
                s.sessionId \in buOpen

\* two scoring calls made on the session created first, a third about to be made
C26_Witness ==
    \E r \in RunIds :
      LET s == run[r] IN
        /\ s.pc = "score" /\ s.iteration = 2
        /\ CountCalls(s, "scoreTask") = 2
        /\ CallsWith(s, "scoreTask", BrowserUseSessionIds[1]) = 2
        /\ s.sessionId = BrowserUseSessionIds[1]
        /\ buOpen = {BrowserUseSessionIds[1]}
        /\ buCreated = 1

\* the value the sink was passed last
LastReported(s) == s.progress[Len(s.progress)]

\* C27: the percent values a run passes to the progress sink never decrease;
\* every value reported from inside the optimize loop lies in 15..85; the
\* last value of a run that returns is 100; for every mode, every budget in
\* 1..20 and every iteration at which the loop stops
C27_ProgressMonotone ==
    /\ [](\A r \in RunIds :
           LET s == run[r] IN
             s.pc # "off" =>
               /\ \A i, j \in DOMAIN s.progress : i <= j => s.progress[i] <= s.progress[j]
               /\ \A i \in DOMAIN s.progress : s.progress[i] \in 0..Scaled(100, s)
               /\ s.hasSink /\ s.pc = "done" /\ s.outcome.kind = "fulfilled" =>
                    s.progress # <<>> /\ LastReported(s) = Scaled(100, s))
    /\ [][\A r \in RunIds :
           (run[r].pc \in {"pRewrite", "pScore"} /\ run[r].hasSink /\ run'[r] # run[r]) =>
             /\ Len(run'[r].progress) = Len(run[r].progress) + 1
             /\ LastReported(run'[r]) >= Scaled(15, run[r])
             /\ LastReported(run'[r]) <= Scaled(85, run[r])
             /\ LastReported(run'[r]) >= LastReported(run[r])]_vars

\* a budget of 20 used up: the loop's last report is below 85, then 92, 100
C27_Witness ==
    \E r \in RunIds :
      LET s == run[r] IN
        /\ s.pc = "done" /\ s.outcome.kind = "fulfilled" /\ s.mode = "optimize"
        /\ s.max_iterations = MaxIterationsLimit /\ s.iterationsUsed = MaxIterationsLimit
        /\ Len(s.progress) = 3 + 2 * MaxIterationsLimit + 2
        /\ s.progress[Len(s.progress) - 2] < Scaled(85, s)
        /\ s.progress[Len(s.progress) - 1] = Scaled(92, s)
        /\ LastReported(s) = Scaled(100, s)

StartsForced(c) ==
    /\ call[c].pc \in {"idle", "done"} /\ call'[c] # call[c]
    /\ call'[c].op = "getOrCreateSession" /\ call'[c].options.forceNew

\* C30: a getOrCreateSession call with forceNew makes no liveness probe, also
\* with a cached session that is running: it goes straight to the context
\* and, with a context at hand and a proxy payload that builds, to the
\* create-session call; a call that returns has issued that call once, and
\* its resolution replaces the cached session id by the new id
C30_ForceNewSkipsProbe ==
    /\ [][\A c \in Callers :
           /\ StartsForced(c) =>
                /\ call'[c].pc # "probe" /\ call'[c].probeId = NoBbSession
                /\ IF call'[c].options.contextId = NoContext /\ cachedContextId = NoContext
                   THEN call'[c].pc = "context"
                   ELSE IF buildProxyConfig(call'[c].options.proxy).threw
                        THEN call'[c].outcome.kind = "rejected"
                        ELSE call'[c].pc = "create"
           /\ (Resumes(c, "create") /\ call[c].options.forceNew /\ call'[c].pc = "debug") =>
                /\ cachedSessionId' = call'[c].sessionId
                /\ cachedSessionId' # cachedSessionId]_vars
    /\ [](\A c \in Callers :
           (call[c].op = "getOrCreateSession" /\ call[c].options.forceNew) =>
             /\ call[c].probe = "none" /\ call[c].via # "reuse"
             /\ (call[c].pc = "done" /\ call[c].outcome.kind = "fulfilled") =>
                  call[c].via = "create" /\ call[c].creates = 1
             /\ (call[c].pc = "done" /\ call[c].outcome.kind = "rejected") =>
                  call[c].outcome.error \in {"proxyType='external' requires proxyServer",
                                              "contexts.create failed",
                                              "sessions.create failed"})

\* the configured session is cached and running; the forced call created
\* another session, which is now the cached one
C30_Witness ==
    \E c \in Callers :
      /\ CreatedOwn(c) /\ call[c].options.forceNew
      /\ bbStatus[ConfigSessionId] = "RUNNING"
      /\ bbSessionsCreated = 1
      /\ call[c].outcome.value.sessionId = BrowserbaseSessionIds[1]
      /\ cachedSessionId = BrowserbaseSessionIds[1]

\* C31: buildProxyConfig yields undefined when proxyEnabled is false or
\* absent, whatever the type, server and country; the one-element external
\* list when enabled with type external and a server, also when a country
\* is set; the one-element browserbase geolocation list when enabled, not
\* external, with a country; and the generic marker true when enabled with
\* neither external type nor country
C31_ProxyPayloadShapes ==
    cfg.stage = "proxy" =>
      LET o == cfg.options
          p == cfg.payload
      IN IF ~Truthy(o.proxyEnabled)
         THEN p = [threw |-> FALSE, proxies |-> Undefined]
         ELSE IF o.proxyType = "external"
              THEN Truthy(o.proxyServer) =>
                     /\ ~p.threw
                     /\ Len(p.proxies) = 1
                     /\ p.proxies[1] = [type |-> "external", server |-> o.proxyServer,
                                        username |-> o.proxyUsername,
                                        password |-> o.proxyPassword]
              ELSE /\ ~p.threw
                   /\ IF Truthy(o.proxyCountry)
                      THEN /\ Len(p.proxies) = 1
                           /\ p.proxies[1] = [type |-> "browserbase",
                                              geolocation |-> [country |-> o.proxyCountry]]
                      ELSE p.proxies = "true"

\* an enabled external proxy with a server and a country gives the external
\* payload
C31_Witness ==
    /\ cfg.stage = "proxy"
    /\ cfg.options.proxyEnabled = "true" /\ cfg.options.proxyType = "external"
    /\ cfg.options.proxyServer = ValidServer /\ cfg.options.proxyCountry = "us"
    /\ Len(cfg.payload.proxies) = 1
    /\ cfg.payload.proxies[1].type = "external"
    /\ cfg.payload.proxies[1].server = ValidServer

\* C32: in the authentication check a signed-out path (signin, login,
\* signup) is logged out with no observe call; on any other path the check
\* observes once and the page is logged in iff the observation returned an
\* element, an empty result and a failed observation being logged out; the
\* failed observation is not raised: the task ends with the authentication
\* error, as for every logged-out page
C32_AuthCheckFailsSafe ==
    (task.pc # "off" /\ task.loggedIn # "unknown") =>
      /\ IF SignedOutPath(task.url)
         THEN /\ task.loggedIn = "no"
              /\ task.authObserved = "none"
              /\ TaskCalls("observe:auth") = 0
         ELSE /\ task.authObserved \in {"element", "empty", "error"}
              /\ TaskCalls("observe:auth") = 1
              /\ task.loggedIn = "yes" <=> task.authObserved = "element"
      /\ task.loggedIn = "no" =>
           /\ task.pc = "done"
           /\ task.outcome = [kind |-> "rejected",
                              error |-> [name |-> "GrammarlyAuthError",
                                         debugUrl |-> task.debugUrl]]

\* the observation for the signed-in indicators failed on an application
\* page: the page counts as logged out
C32_Witness ==
    /\ task.pc = "done" /\ ~SignedOutPath(task.url)
    /\ task.authObserved = "error" /\ task.loggedIn = "no"
    /\ task.outcome.kind = "rejected" /\ task.outcome.error.name = "GrammarlyAuthError"

\* the observe-then-act step for one affordance, from the state in which
\* its observation is awaited
ObserveThenAct(from, to, what) ==
    (task.pc = from /\ task' # task) =>
      /\ task'.pc = to
      /\ task'.observed \in ObserveResults
      /\ task'.log = Append(task.log,
                            IF task'.observed = "element"
                            THEN "act:" \o what \o ":observed"
                            ELSE "act:" \o what \o ":instruction")

\* C33: at document creation and at feature invocation the task issues one
\* action: on the observed element when the observation's first element is
\* defined, on the instruction string when the observation is empty or its
\* first element undefined; the task goes on to the next step either way,
\* and no step issues a second action
C33_ObserveThenActOrFallback ==
    /\ [][/\ ObserveThenAct("newDocument", "newDocumentAct", "newDocument")
          /\ ObserveThenAct("aiDetection", "aiDetectionAct", "aiDetection")]_vars
    /\ [](task.pc # "off" =>
           \A what \in {"newDocument", "aiDetection"} :
             /\ TaskCalls("act:" \o what \o ":observed")
                  + TaskCalls("act:" \o what \o ":instruction") <= 1
             /\ (task.pc \in {"extract", "fallback"} \/ task.primary # "none") =>
                  TaskCalls("act:" \o what \o ":observed")
                    + TaskCalls("act:" \o what \o ":instruction") = 1)

\* neither observation returned a located element, the AI-detection one an
\* undefined first element; both actions went by instruction and the task
\* returned scores
C33_Witness ==
    /\ task.pc = "done" /\ task.outcome.kind = "fulfilled"
    /\ task.observed = "undefined"
    /\ TaskCalls("act:newDocument:instruction") = 1
    /\ TaskCalls("act:aiDetection:instruction") = 1

\* C34: without a page the task ends at once with the setup error, having
\* made no goto, observe, act or extract call; a navigation whose wait
\* timed out is followed by the authentication check, and on a logged-in
\* page by the extraction: the task never ends with the timeout
C34_NoPageFailsTimeoutContinues ==
    /\ [](task.pc # "off" =>
           /\ ~task.hasPage =>
                /\ task.pc = "done"
                /\ task.outcome = [kind |-> "rejected",
                                   error |-> [name |-> "Error",
                                              message |-> "No page available in Stagehand context"]]
                /\ task.log = <<>>
           /\ task.navigation = "timeout" =>
                /\ task.pc = "auth" <=> task.loggedIn = "unknown"
                /\ task.pc = "done" =>
                     IF task.loggedIn = "yes"
                     THEN TaskCalls("extract") = 1
                     ELSE task.outcome.error.name = "GrammarlyAuthError")
    /\ [][(task.pc = "navigate" /\ task' # task) =>
            task'.pc = "auth" /\ task'.log = task.log]_vars

\* the wait after the navigation timed out, and the task returned scores
C34_Witness ==
    /\ task.pc = "done" /\ task.navigation = "timeout"
    /\ task.loggedIn = "yes" /\ task.outcome.kind = "fulfilled"
    /\ TaskCalls("goto") = 1 /\ TaskCalls("extract") = 1

\* the calls of kind op that run r has made, in order
OwnCalls(r, op) == SelectSeq(run[r].calls, LAMBDA k : k.op = op)

\* C35: of two runs in one process each holds the session its own
\* create-session call returned, the two sessions differ, and a run deletes
\* its own session only; a step of one run changes nothing of the other run
\* and neither opens nor closes the other run's session; the result of a run
\* is made of its own text, its own rewrites and the scores its own scoring
\* calls returned
C35_RunsAreIsolated ==
    /\ [](\A r \in RunIds :
           LET s == run[r] IN
             /\ s.sessionId # NoSession =>
                  /\ OwnCalls(r, "createSession")[1].output.value = s.sessionId
                  /\ \A q \in RunIds \ {r} : run[q].sessionId # s.sessionId
             /\ \A i \in DOMAIN s.calls :
                  s.calls[i].op \in {"scoreTask", "deleteSession"} =>
                    s.calls[i].arg = s.sessionId
             /\ (s.pc \notin {"idle", "done"} /\ s.sessionId # NoSession) =>
                  s.sessionId \in buOpen
             /\ Fulfilled(s) =>
                  LET v == s.outcome.value
                      scored == OwnCalls(r, "scoreTask")
                      last == scored[Len(scored)]
                  IN /\ scored[1].input.text = TextOf(r)
                     /\ v.final_text = last.input.text
                     /\ v.ai_detection_percent = last.output.scores.aiDetectionPercent
                     /\ v.plagiarism_percent = last.output.scores.plagiarismPercent
                     /\ v.iterations_used = Len(OwnCalls(r, "rewrite"))
                     /\ Len(v.history) = Len(scored)
                     /\ \A i \in DOMAIN scored :
                          /\ v.history[i].iteration = i - 1
                          /\ v.history[i].ai_detection_percent =
                               scored[i].output.scores.aiDetectionPercent
                          /\ v.history[i].plagiarism_percent =
                               scored[i].output.scores.plagiarismPercent)
    /\ [][\A r \in RunIds :
            run'[r] # run[r] =>
              \A q \in RunIds \ {r} :
                /\ run'[q] = run[q]
                /\ run[q].sessionId \in buOpen <=> run[q].sessionId \in buOpen']_vars

\* the first run has returned and deleted its session while the second run,
\* on another text, is between its two scoring calls with its session open
C35_Witness ==
    /\ Fulfilled(run[1]) /\ ~run[1].closeFailed
    /\ run[1].sessionId = BrowserUseSessionIds[2]
    /\ run[2].sessionId = BrowserUseSessionIds[1]
    /\ run[2].pc = "score" /\ run[2].mode = "optimize"
    /\ buOpen = {run[2].sessionId}

\* C36: in every mode the thresholds_met of a result is the threshold policy
\* applied to the scores of that result and the maxima of the request: true
\* iff at least one of the two scores is available and every available
\* score is at most its maximum; an optimize result with thresholds_met
\* false has used the whole budget of iterations
C36_ThresholdsMetMatchesResult ==
    \A r \in RunIds :
      LET s == run[r] IN
        (s.pc # "off" /\ Fulfilled(s)) =>
          LET v == s.outcome.value
              ai == v.ai_detection_percent
              plagiarism == v.plagiarism_percent
          IN /\ v.thresholds_met <=>
                  /\ ai # Null \/ plagiarism # Null
                  /\ ai = Null \/ ai <= s.max_ai_percent
                  /\ plagiarism = Null \/ plagiarism <= s.max_plagiarism_percent
             /\ (s.mode = "optimize" /\ ~v.thresholds_met) =>
                  v.iterations_used = s.max_iterations

\* an optimize run returned after its second iteration with the AI score
\* unavailable and the plagiarism score above its maximum
C36_Witness ==
    \E r \in RunIds :
      /\ run[r].pc # "off" /\ Fulfilled(run[r]) /\ run[r].mode = "optimize"
      /\ run[r].max_iterations = 2
      /\ run[r].outcome.value.ai_detection_percent = Null
      /\ run[r].outcome.value.plagiarism_percent = 7
      /\ ~run[r].outcome.value.thresholds_met
      /\ run[r].outcome.value.iterations_used = 2

\* C37: in optimize mode a successful baseline pass is followed by the loop
\* whatever the baseline scores are, so every optimize result has made at
\* least one rewrite and one re-score: iterations_used is in
\* 1..max_iterations and equals the number of rewrites, and final_text is
\* the output of the last rewrite
C37_OptimizeAlwaysRewrites ==
    /\ [][\A r \in RunIds :
            (run[r].pc = "score0" /\ run[r].mode = "optimize"
               /\ run'[r] # run[r] /\ run'[r].completion.kind # "throw") =>
              /\ run'[r].pc = "p15"
              /\ ~run'[r].reachedThresholds
              /\ run'[r].iterationsUsed = 0]_vars
    /\ [](\A r \in RunIds :
           LET s == run[r] IN
             (s.pc # "off" /\ Fulfilled(s) /\ s.mode = "optimize") =>
               LET v == s.outcome.value
                   rewrites == SelectSeq(s.calls, LAMBDA k : k.op = "rewrite")
               IN /\ Len(rewrites) >= 1
                  /\ CountCalls(s, "scoreTask") = Len(rewrites) + 1
                  /\ v.iterations_used = Len(rewrites)
                  /\ v.iterations_used \in 1..s.max_iterations
                  /\ v.final_text = rewrites[Len(rewrites)].output.value.rewrittenText)

\* the baseline already met both thresholds; the text was rewritten all the
\* same and the result carries the rewrite, not the caller's text
C37_Witness ==
    \E r \in RunIds :
      /\ run[r].pc # "off" /\ Fulfilled(run[r]) /\ run[r].mode = "optimize"
      /\ run[r].history[1].ai_detection_percent = 8
      /\ run[r].history[1].plagiarism_percent = 3
      /\ run[r].outcome.value.iterations_used = 1
      /\ run[r].outcome.value.final_text # run[r].text

\* C38: between the provider's calls no session id for which the provider
\* has asked the session manager to release the session is a key of the
\* handle map, so that scoreText finds no handle for a released session
C38_NoHandleForReleasedSession ==
    provider.pc \in {"idle", "done"} =>
      provider.stagehandInstances \cap provider.releaseAsked = {}

\* C39: no handle that createSession stored in the handle map leaves the
\* map other than through closeSession, which closes it
C39_NoHandleDroppedUnclosed ==
    provider.pc # "off" => provider.orphaned = {}

\* C40: in a run started by the tool handler no invocation of the progress
\* sink ends the run: after a failed send the run is where it would be
\* after a delivered one, no run ends with the sink's error, and a run that
\* has ended after a failed send has asked for its session's deletion if it
\* had a session; without a progress token, or without the means to send,
\* no notification is sent, and with both one is sent per progress report
C40_ProgressFailureNeverAborts ==
    /\ [](\A r \in RunIds :
           LET s == run[r] IN
             (s.pc # "off" /\ s.carrier.handler) =>
               /\ s.completion.kind = "throw" => s.completion.error # "progress sink failed"
               /\ s.outcome.kind = "rejected" => s.outcome.error # "progress sink failed"
               /\ (s.pc = "done" /\ s.sessionId # NoSession) =>
                    /\ CountCalls(s, "deleteSession") = 1
                    /\ s.calls[Len(s.calls)].arg = s.sessionId
               /\ s.sent = IF s.carrier.sendNotification /\ s.carrier.progressToken = "token-1"
                           THEN Len(s.progress) ELSE 0
               /\ s.sendFailed => s.sent > 0)
    /\ [][\A r \in RunIds :
            (run[r].carrier.handler /\ run[r].pc # "idle"
               /\ Len(run'[r].progress) = Len(run[r].progress) + 1) =>
              /\ run'[r].pc \notin {"done"}
              /\ run'[r].completion = run[r].completion \/ run'[r].completion.kind = "return"]_vars

\* a notification could not be delivered, and the run returned its result
\* and deleted its session
C40_Witness ==
    \E r \in RunIds :
      /\ run[r].pc # "off" /\ run[r].carrier.handler /\ run[r].sendFailed
      /\ Fulfilled(run[r]) /\ run[r].mode = "optimize"
      /\ run[r].sessionId \notin buOpen
      /\ run[r].calls[Len(run[r].calls)].op = "deleteSession"
      /\ run[r].calls[Len(run[r].calls)].output.ok
====
